---------------------------- MODULE Spec2Model ----------------------------
(***************************************************************************)
(* A model of the chess-league scraper (chess_scraper.py) and of the       *)
(* dashboard's data loader (dashboard.py).                                 *)
(*                                                                         *)
(*   Spec       run_scraper: the crawl, stage by stage                     *)
(*   SpecFetch  fetch_page: the retry loop, attempt by attempt             *)
(*   SpecTeam   scrape_team_page: the extraction, fixture by fixture       *)
(*   SpecLoad   load_data: the player-to-team bridge of the dashboard      *)
(*   SpecHist   fetch_historical_ratings: the rating list, entry by entry  *)
(*   SpecRepair the repair mode, as the specification describes it         *)
(*                                                                         *)
(* Python values are modelled as follows.  An optional value is a sequence *)
(* of length at most one (None is <<>>).  A dict is the sequence of its    *)
(* <<key, value>> pairs in insertion order, as Python keeps it.  A float   *)
(* that is a mean is the exact fraction <<numerator, denominator>> in      *)
(* lowest terms; a score, a multiple of 0.5, is counted in half points.    *)
(* A URL is the record of its host, resource and trailing id.              *)
(***************************************************************************)
EXTENDS Integers, Sequences, FiniteSets, TLC

VARIABLES
    \* fetch_page
    fp_pc, fp_retries, fp_i, fp_log, fp_waits, fp_open, fp_ret,
    \* scrape_team_page: its argument, the page it fetched, team_data, the
    \* number of fixture rows done and what fetch_page gave for each of them
    tm_pc, tm_inst, tm_html, tm_data, tm_idx, tm_pairings,
    \* load_data: the content of chess_team_data.json and of
    \* chess_player_data.json (None: the file is not there), and what it returns
    ld_pc, ld_team_file, ld_player_file, ld_result,
    \* run_scraper: where it is, its locals and the three module-level maps;
    \* a list that executor.map fills holds None where the call is still
    \* running.  comp_pages is what fetch_page gave for the competition pages,
    \* fetches the number of page fetches started per kind and URL,
    \* pairing_pages what fetch_page gave for each pairing page fetched, per
    \* team page and pairing page,
    \* persist_log what became of each file written, in order.  The lists
    \* keep the records as the workers returned them; the record a merge
    \* loop extends is the one held by the aggregation map.
    pc, comp_pages, sissa_teams_to_find, sissa_team_data_list, cached_team_data,
    unique_division_urls, division_results, all_divisions_data,
    all_teams_to_scrape, all_players_in_divisions, team_instances,
    newly_scraped_team_data, final_team_data_list, aggregated_teams_data,
    all_teams_data, unique_players_to_scrape, player_data_list,
    aggregated_players_data, all_players_data, agg_i, fetches,
    pairing_pages, persist_log,
    \* fetch_historical_ratings: datetime.now(), what the request gave, the
    \* number of entries done, historical_data and what is returned
    hr_pc, hr_now, hr_response, hr_i, hr_data, hr_ret,
    \* repair mode: the teams as loaded, the names found failed, the team
    \* instances discovered for them, what their fetches gave, the collection
    \* being repaired and the collection as written again
    rp_pc, rp_loaded, rp_failed, rp_instances, rp_results, rp_teams, rp_written,
    \* the worker pools of run_scraper: where the main thread is, the stage
    \* whose pool is open, the competition pages fetched, whether the main
    \* thread is in fetch_page, the calls executor.map has still to submit, the
    \* calls queued, the threads of the pool, the workers in fetch_page and
    \* the workers in a call but not in fetch_page
    pl_pc, pl_stage, pl_pages, pl_main, pl_submit, pl_queue, pl_threads,
    pl_fetching, pl_between

fpVars == <<fp_pc, fp_retries, fp_i, fp_log, fp_waits, fp_open, fp_ret>>
tmVars == <<tm_pc, tm_inst, tm_html, tm_data, tm_idx, tm_pairings>>

ldVars == <<ld_pc, ld_team_file, ld_player_file, ld_result>>

discoverVars == <<comp_pages, sissa_teams_to_find>>
teamStageVars == <<sissa_team_data_list, cached_team_data, unique_division_urls>>
divisionStageVars ==
    <<division_results, all_divisions_data, all_teams_to_scrape,
      all_players_in_divisions, team_instances>>
teamAggVars ==
    <<newly_scraped_team_data, final_team_data_list, aggregated_teams_data,
      all_teams_data>>
playerVars ==
    <<unique_players_to_scrape, player_data_list, aggregated_players_data,
      all_players_data>>
runVars ==
    <<pc, discoverVars, teamStageVars, divisionStageVars, teamAggVars, playerVars,
      agg_i, fetches, pairing_pages, persist_log>>

hrVars == <<hr_pc, hr_now, hr_response, hr_i, hr_data, hr_ret>>

rpVars == <<rp_pc, rp_loaded, rp_failed, rp_instances, rp_results, rp_teams, rp_written>>

plVars == <<pl_pc, pl_stage, pl_pages, pl_main, pl_submit, pl_queue, pl_threads,
            pl_fetching, pl_between>>

vars == <<fpVars, tmVars, ldVars, runVars, hrVars, rpVars, plVars>>

\* what a step of one function leaves alone
exceptFpVars == <<tmVars, ldVars, runVars, hrVars, rpVars, plVars>>
exceptTmVars == <<fpVars, ldVars, runVars, hrVars, rpVars, plVars>>
exceptLdVars == <<fpVars, tmVars, runVars, hrVars, rpVars, plVars>>
exceptRunVars == <<fpVars, tmVars, ldVars, hrVars, rpVars, plVars>>
exceptHrVars == <<fpVars, tmVars, ldVars, runVars, rpVars, plVars>>
exceptRpVars == <<fpVars, tmVars, ldVars, runVars, hrVars, plVars>>
exceptPlVars == <<fpVars, tmVars, ldVars, runVars, hrVars, rpVars>>

-----------------------------------------------------------------------------
(* Python values *)

None == <<>>
Some(v) == <<v>>
IsNone(o) == o = <<>>
The(o) == o[1]

RECURSIVE SumSeq(_)
SumSeq(s) == IF s = <<>> THEN 0 ELSE Head(s) + SumSeq(Tail(s))

RECURSIVE Gcd(_, _)
Gcd(a, b) == IF b = 0 THEN a ELSE Gcd(b, a % b)

\* n / d as Python's float division gives it, kept exact
Frac(n, d) == LET g == Gcd(n, d) IN <<n \div g, d \div g>>

\* sum(raw_ratings) / len(raw_ratings) if raw_ratings else 0.0
Mean(raw_ratings) ==
    IF raw_ratings = <<>> THEN <<0, 1>>
    ELSE Frac(SumSeq(raw_ratings), Len(raw_ratings))

\* dict: k in d, d[k], d[k] = v (an assignment to a key already present keeps
\* the key's place), d.keys(), d.values(), d.update(e)
DictKeys(d) == [i \in 1..Len(d) |-> d[i][1]]
DictValues(d) == [i \in 1..Len(d) |-> d[i][2]]
DictHas(d, k) == \E i \in 1..Len(d) : d[i][1] = k
DictGet(d, k) == d[CHOOSE i \in 1..Len(d) : d[i][1] = k][2]
DictSet(d, k, v) ==
    IF DictHas(d, k)
    THEN [i \in 1..Len(d) |-> IF d[i][1] = k THEN <<k, v>> ELSE d[i]]
    ELSE Append(d, <<k, v>>)

RECURSIVE DictUpdate(_, _)
DictUpdate(d, e) ==
    IF e = <<>> THEN d
    ELSE DictUpdate(DictSet(d, e[1][1], e[1][2]), Tail(e))

Range(s) == {s[i] : i \in 1..Len(s)}

-----------------------------------------------------------------------------
(* fetch_page *)

MaxRetries == 3

\* What one pass of the try block can end in.
\*   content          page_source is not empty: driver.quit(), return it
\*   empty            page_source is empty: driver.quit(), next attempt
\*   wd_no_session    webdriver.Chrome(...) raises WebDriverException
\*   wd_error         driver.get or a wait raises WebDriverException or
\*                    TimeoutException: the session was started
\*   install_error    ChromeDriverManager().install() raises an error that is
\*                    no WebDriverException (its download failed)
\*   transport_error  a call on the started driver raises an error that is no
\*                    WebDriverException (the connection to the driver broke)
AttemptOutcomes ==
    {"content", "empty", "wd_no_session", "wd_error", "install_error",
     "transport_error"}

\* except (WebDriverException, TimeoutException)
Caught(outcome) == outcome \in {"wd_no_session", "wd_error"}

\* the attempt started a session and did not reach driver.quit()
LeavesSessionOpen(outcome) == outcome \in {"wd_error", "transport_error"}

\* time.sleep((i + 1) * 5) if i < retries - 1
BackoffWait(i, retries) == IF i < retries - 1 THEN <<(i + 1) * 5>> ELSE <<>>

FetchStart ==
    /\ fp_pc = "loop"
    /\ fp_retries \in 0..MaxRetries
    /\ fp_i = 0
    /\ fp_log = <<>>
    /\ fp_waits = <<>>
    /\ fp_open = 0
    /\ fp_ret = "pending"

\* one iteration of: for i in range(retries)
FetchAttempt ==
    /\ fp_pc = "loop"
    /\ fp_i < fp_retries
    /\ \E outcome \in AttemptOutcomes :
         /\ fp_log' = Append(fp_log, outcome)
         /\ fp_open' = IF LeavesSessionOpen(outcome) THEN fp_open + 1 ELSE fp_open
         /\ IF outcome = "content"
            THEN /\ fp_pc' = "returned"
                 /\ fp_ret' = "html"
                 /\ UNCHANGED <<fp_i, fp_waits>>
            ELSE IF outcome = "empty"
            THEN /\ fp_i' = fp_i + 1
                 /\ UNCHANGED <<fp_pc, fp_ret, fp_waits>>
            ELSE IF Caught(outcome)
            THEN /\ fp_waits' = fp_waits \o BackoffWait(fp_i, fp_retries)
                 /\ fp_i' = fp_i + 1
                 /\ UNCHANGED <<fp_pc, fp_ret>>
            ELSE /\ fp_pc' = "raised"
                 /\ fp_ret' = "raise"
                 /\ UNCHANGED <<fp_i, fp_waits>>
    /\ UNCHANGED fp_retries
    /\ UNCHANGED exceptFpVars

\* the loop has run out: return None
FetchExhausted ==
    /\ fp_pc = "loop"
    /\ fp_i >= fp_retries
    /\ fp_pc' = "returned"
    /\ fp_ret' = "None"
    /\ UNCHANGED <<fp_retries, fp_i, fp_log, fp_waits, fp_open>>
    /\ UNCHANGED exceptFpVars

FetchIdle ==
    /\ fp_pc = "idle"
    /\ fp_retries = 0
    /\ fp_i = 0
    /\ fp_log = <<>>
    /\ fp_waits = <<>>
    /\ fp_open = 0
    /\ fp_ret = "pending"

-----------------------------------------------------------------------------
(* Text conversions.  A text is the sequence of its characters. *)

Digits == {"0", "1", "2", "3", "4", "5", "6", "7", "8", "9"}

DigitValue(c) ==
    CASE c = "0" -> 0 [] c = "1" -> 1 [] c = "2" -> 2 [] c = "3" -> 3
      [] c = "4" -> 4 [] c = "5" -> 5 [] c = "6" -> 6 [] c = "7" -> 7
      [] c = "8" -> 8 [] c = "9" -> 9

AllDigits(t) == \A i \in 1..Len(t) : t[i] \in Digits

RECURSIVE DigitsValue(_)
DigitsValue(t) ==
    IF t = <<>> THEN 0
    ELSE 10 * DigitsValue(SubSeq(t, 1, Len(t) - 1)) + DigitValue(t[Len(t)])

RECURSIVE Pow10(_)
Pow10(n) == IF n = 0 THEN 1 ELSE 10 * Pow10(n - 1)

\* text.strip()
RECURSIVE LStrip(_)
LStrip(t) == IF t # <<>> /\ Head(t) = " " THEN LStrip(Tail(t)) ELSE t
RECURSIVE RStrip(_)
RStrip(t) ==
    IF t # <<>> /\ t[Len(t)] = " " THEN RStrip(SubSeq(t, 1, Len(t) - 1)) ELSE t
Strip(t) == RStrip(LStrip(t))

\* int(text): None stands for ValueError
ParseInt(text) ==
    LET t == Strip(text) IN
    IF t # <<>> /\ AllDigits(t) THEN Some(DigitsValue(t)) ELSE None

\* text.replace(',', '.')
CommaToDot(t) == [i \in 1..Len(t) |-> IF t[i] = "," THEN "." ELSE t[i]]

\* float(text.strip().replace(',', '.')): None stands for ValueError
ParseFloat(text) ==
    LET t == CommaToDot(Strip(text))
        dots == {i \in 1..Len(t) : t[i] = "."}
    IN  IF dots = {}
        THEN IF t # <<>> /\ AllDigits(t) THEN Some(Frac(DigitsValue(t), 1)) ELSE None
        ELSE IF Cardinality(dots) > 1 THEN None
        ELSE LET d == CHOOSE i \in dots : TRUE
                 whole == SubSeq(t, 1, d - 1)
                 frac == SubSeq(t, d + 1, Len(t))
             IN  IF AllDigits(whole) /\ AllDigits(frac) /\ Len(whole) + Len(frac) > 0
                 THEN Some(Frac(DigitsValue(whole) * Pow10(Len(frac)) + DigitsValue(frac),
                                Pow10(Len(frac))))
                 ELSE None

-----------------------------------------------------------------------------
(* Configuration and URLs *)

\* BASE_URLS: its keys, in the order of the dict
Domains == <<"knsb", "nosbo">>

\* domain_key.upper() and federation.lower()
Upper(domain_key) == IF domain_key = "knsb" THEN "KNSB" ELSE "NOSBO"
Lower(federation) == IF federation = "KNSB" THEN "knsb" ELSE "nosbo"

\* BASE_URLS[domain_key] + href, href being /<kind>/view/<id>
Url(domain_key, href) == [host |-> domain_key, kind |-> href.kind, id |-> href.id]
Href(kind, id) == [kind |-> kind, id |-> id]

\* what a call of fetch_page gives its caller
Content(doc) == [kind |-> "content", doc |-> doc]
NoContent == [kind |-> "none"]
FetchRaised == [kind |-> "raise"]

-----------------------------------------------------------------------------
(* _scrape_opponent_rating_from_pairings *)

\* what a function returns: a value, or an exception it lets through
Return(v) == [raised |-> FALSE, value |-> v]
Raise == [raised |-> TRUE]

\* for i, link in enumerate(header_links): the first index (from 0) whose text
\* is the opponent's name, or -1
RECURSIVE IndexOf(_, _, _)
IndexOf(links, name, i) ==
    IF i > Len(links) THEN -1
    ELSE IF links[i] = name THEN i - 1
    ELSE IndexOf(links, name, i + 1)

\* lines 104-109: the footer's average-rating cell of the opponent's column
FooterRating(doc, opponent_col_index) ==
    IF ~doc.tfoot THEN None                                \* AttributeError
    ELSE IF Len(doc.footer) > opponent_col_index
    THEN LET rating_cell == doc.footer[opponent_col_index + 1] IN
         IF IsNone(rating_cell) THEN None                  \* AttributeError
         ELSE ParseInt(The(rating_cell))                   \* ValueError
    ELSE None

\* the extractor without the rejection of a ghost pairing (line 94 left out)
rating_without_ghost_check(pairing_page_html, opponent_team_name) ==
    IF pairing_page_html.kind # "content" THEN Return(None)
    ELSE LET doc == pairing_page_html.doc IN
    IF ~doc.table THEN Return(None)
    ELSE IF ~doc.tbody THEN Raise
    ELSE IF ~doc.thead THEN Raise
    ELSE LET opponent_col_index == IndexOf(doc.header_links, opponent_team_name, 1) IN
         IF opponent_col_index = -1 THEN Return(None)
         ELSE Return(FooterRating(doc, opponent_col_index))

scrape_opponent_rating_from_pairings(pairing_page_html, opponent_team_name) ==
    IF pairing_page_html.kind # "content" THEN Return(None)
    ELSE LET doc == pairing_page_html.doc IN
    IF ~doc.table THEN Return(None)
    ELSE IF ~doc.tbody THEN Raise
    ELSE IF doc.player_links # <<>>
            /\ \A i \in 1..Len(doc.player_links) : doc.player_links[i] = "NN"
    THEN Return(None)
    ELSE IF ~doc.thead THEN Raise
    ELSE LET opponent_col_index == IndexOf(doc.header_links, opponent_team_name, 1) IN
         IF opponent_col_index = -1 THEN Return(None)
         ELSE Return(FooterRating(doc, opponent_col_index))

-----------------------------------------------------------------------------
(* scrape_team_page *)

\* lines 190-194
TeamDataDefault(team_instance) ==
    [name |-> team_instance.name, federation |-> team_instance.domain,
     division_url |-> None, match_points |-> <<0, 1>>, board_points |-> <<0, 1>>,
     players |-> <<>>, matches |-> <<>>, opponent_ratings_raw |-> <<>>]

\* lines 207-214: the labels in document order; an error ends the loop
RECURSIVE ParsePoints(_, _)
ParsePoints(labels, data) ==
    IF labels = <<>> THEN data
    ELSE LET label == Head(labels)
             v == ParseFloat(label.text)
         IN  IF label.label \notin {"MP", "BP"} THEN ParsePoints(Tail(labels), data)
             ELSE IF IsNone(v) THEN data
             ELSE IF label.label = "MP"
             THEN ParsePoints(Tail(labels), [data EXCEPT !.match_points = The(v)])
             ELSE ParsePoints(Tail(labels), [data EXCEPT !.board_points = The(v)])

\* lines 219-224: the roster rows that carry a player link
RECURSIVE ParseRoster(_, _, _)
ParseRoster(rows, domain_key_lower, players) ==
    IF rows = <<>> THEN players
    ELSE LET row == Head(rows) IN
         IF IsNone(row) THEN ParseRoster(Tail(rows), domain_key_lower, players)
         ELSE ParseRoster(Tail(rows), domain_key_lower,
                  DictSet(players, The(row).id,
                          [name |-> The(row).name,
                           url |-> Url(domain_key_lower, Href("players", The(row).id))]))

\* lines 203-226: the division link, the points and the roster
TeamHeader(team_instance, doc, team_data) ==
    LET domain_key_lower == Lower(team_instance.domain)
        d1 == IF IsNone(doc.division_link) THEN team_data
              ELSE [team_data EXCEPT
                       !.division_url = Some(Url(domain_key_lower, The(doc.division_link)))]
        d2 == ParsePoints(doc.labels, d1)
    IN  IF IsNone(doc.roster) THEN Return(d2)
        ELSE IF ~The(doc.roster).tbody THEN Raise
        ELSE Return([d2 EXCEPT
                        !.players = ParseRoster(The(doc.roster).rows, domain_key_lower, <<>>)])

\* the row is a fixture whose pairing page is visited (lines 233-235)
HasPairingLink(row) == row.ncells = 5 /\ ~IsNone(row.link)

\* the row with line 244 taken out of the `if` of line 242: the match is
\* kept whatever the rating
fixture_row_keeping_every_match(team_instance, team_data, row, pairing_html) ==
    IF ~HasPairingLink(row) THEN Return(team_data)
    ELSE IF pairing_html.kind = "raise" THEN Raise
    ELSE LET team_name == team_instance.name
             opponent_team_name == IF row.home = team_name THEN row.away ELSE row.home
             r == scrape_opponent_rating_from_pairings(pairing_html, opponent_team_name)
             match == [date |-> row.date, opponent |-> opponent_team_name,
                       location |-> IF row.home = team_name THEN "Home" ELSE "Away",
                       result |-> row.result]
         IN  IF r.raised THEN Raise
             ELSE IF ~IsNone(r.value) /\ The(r.value) # 0
             THEN Return([team_data EXCEPT
                     !.opponent_ratings_raw = Append(@, The(r.value)),
                     !.matches = Append(@, match)])
             ELSE Return([team_data EXCEPT !.matches = Append(@, match)])

\* lines 232-244: one row of the fixture table; pairing_html is what
\* fetch_page gave for the row's pairing link
TeamFixtureRow(team_instance, team_data, row, pairing_html) ==
    IF ~HasPairingLink(row) THEN Return(team_data)
    ELSE IF pairing_html.kind = "raise" THEN Raise
    ELSE LET team_name == team_instance.name
             opponent_team_name == IF row.home = team_name THEN row.away ELSE row.home
             r == scrape_opponent_rating_from_pairings(pairing_html, opponent_team_name)
         IN  IF r.raised THEN Raise
             ELSE IF ~IsNone(r.value) /\ The(r.value) # 0
             THEN Return([team_data EXCEPT
                     !.opponent_ratings_raw = Append(@, The(r.value)),
                     !.matches = Append(@,
                         [date |-> row.date, opponent |-> opponent_team_name,
                          location |-> IF row.home = team_name THEN "Home" ELSE "Away",
                          result |-> row.result])])
             ELSE Return(team_data)

\* lines 231-244: the rows from index i on
RECURSIVE TeamFixtures(_, _, _, _, _)
TeamFixtures(team_instance, team_data, rows, pairing_htmls, i) ==
    IF i > Len(rows) THEN Return(team_data)
    ELSE LET r == TeamFixtureRow(team_instance, team_data, rows[i], pairing_htmls[i]) IN
         IF r.raised THEN Raise
         ELSE TeamFixtures(team_instance, r.value, rows, pairing_htmls, i + 1)

\* html_content is what fetch_page gave for the team page, pairing_htmls[i]
\* what it gave for the pairing link of fixture row i
scrape_team_page(team_instance, html_content, pairing_htmls) ==
    IF html_content.kind = "raise" THEN Raise
    ELSE IF html_content.kind = "none" THEN Return(TeamDataDefault(team_instance))
    ELSE LET doc == html_content.doc
             h == TeamHeader(team_instance, doc, TeamDataDefault(team_instance))
         IN  IF h.raised THEN Raise
             ELSE IF IsNone(doc.matches) THEN h
             ELSE IF ~The(doc.matches).tbody THEN Raise
             ELSE TeamFixtures(team_instance, h.value, The(doc.matches).rows,
                               pairing_htmls, 1)

-----------------------------------------------------------------------------
(* scrape_competition_pages.  A link text is the sequence of its words. *)

\* re.IGNORECASE, on the words of the pages
CaseFold(word) ==
    CASE word = "sissa" -> "SISSA"
      [] word = "opp" -> "OPP"
      [] OTHER -> word

\* [IVXLCDM\d]+ finds something at the start of the word
NumeralWords == {"1", "2", "3", "I", "II", "III", "IV"}

\* the pattern without the prefix (line 164 with the numeral alone)
pattern_without_prefix(target_prefix, team_name_text) ==
    /\ Len(team_name_text) >= 2
    /\ CaseFold(team_name_text[2]) \in NumeralWords

\* team_pattern.match(team_name_text), the pattern being the prefix, white
\* space and a numeral
TeamPatternMatches(target_prefix, team_name_text) ==
    /\ Len(team_name_text) >= 2
    /\ CaseFold(team_name_text[1]) = CaseFold(target_prefix)
    /\ CaseFold(team_name_text[2]) \in NumeralWords

\* lines 171-176: the links of one competition page
RECURSIVE FoundOnPage(_, _, _)
FoundOnPage(target_prefix, domain_key, links) ==
    IF links = <<>> THEN <<>>
    ELSE LET a_tag == Head(links)
             rest == FoundOnPage(target_prefix, domain_key, Tail(links))
         IN  IF TeamPatternMatches(target_prefix, a_tag.text)
             THEN <<[name |-> a_tag.text, url |-> Url(domain_key, a_tag.href),
                     domain |-> Upper(domain_key)]>> \o rest
             ELSE rest

\* lines 166-177: pages[i] is what fetch_page gave for the competition page
\* of Domains[i]
RECURSIVE scrape_competition_pages(_, _, _)
scrape_competition_pages(target_prefix, pages, i) ==
    IF i > Len(pages) THEN <<>>
    ELSE (IF pages[i].kind = "content"
          THEN FoundOnPage(target_prefix, Domains[i], pages[i].doc.links)
          ELSE <<>>)
         \o scrape_competition_pages(target_prefix, pages, i + 1)

-----------------------------------------------------------------------------
(* scrape_division_page *)

\* lines 264-267
RECURSIVE DivisionTeams(_, _)
DivisionTeams(rows, teams) ==
    IF rows = <<>> THEN teams
    ELSE IF IsNone(Head(rows)) THEN DivisionTeams(Tail(rows), teams)
    ELSE DivisionTeams(Tail(rows),
             DictSet(teams, The(Head(rows)).id, [name |-> The(Head(rows)).name]))

\* lines 270-280: a row counts when it has a player link and a numeric Elo cell
RECURSIVE DivisionPlayers(_, _)
DivisionPlayers(rows, players) ==
    IF rows = <<>> THEN players
    ELSE LET row == Head(rows) IN
         IF IsNone(row.link) \/ IsNone(row.elo) \/ IsNone(ParseInt(The(row.elo)))
         THEN DivisionPlayers(Tail(rows), players)
         ELSE DivisionPlayers(Tail(rows),
                  DictSet(players, The(row.link).id,
                          [name |-> The(row.link).name, elo |-> The(ParseInt(The(row.elo)))]))

DivisionDataDefault(domain_key) ==
    [name |-> <<>>, federation |-> Upper(domain_key), teams |-> <<>>, players |-> <<>>]

\* lines 252-281; a division name is the sequence of its words, '' is <<>>
scrape_division_page(html_content, domain_key) ==
    IF html_content.kind = "raise" THEN Raise
    ELSE IF html_content.kind = "none" THEN Return(DivisionDataDefault(domain_key))
    ELSE LET doc == html_content.doc
             d0 == DivisionDataDefault(domain_key)
             d1 == IF IsNone(doc.h1) THEN d0 ELSE [d0 EXCEPT !.name = The(doc.h1)]
         IN  IF ~IsNone(doc.teams_table) /\ ~The(doc.teams_table).tbody THEN Raise
             ELSE IF ~IsNone(doc.players_table) /\ ~The(doc.players_table).tbody THEN Raise
             ELSE Return([d1 EXCEPT
                     !.teams = IF IsNone(doc.teams_table) THEN <<>>
                               ELSE DivisionTeams(The(doc.teams_table).rows, <<>>),
                     !.players = IF IsNone(doc.players_table) THEN <<>>
                                 ELSE DivisionPlayers(The(doc.players_table).rows, <<>>)])

-----------------------------------------------------------------------------
(* scrape_player_page.  The statistics table (lines 312-329) fills fields *)
(* that nothing in the crawl reads; it is left out.                      *)

\* lines 291-297, the fields the crawl reads; a score is in half points
PlayerDataDefault(player_id) ==
    [federation_id |-> player_id, universal_id |-> None, name |-> "",
     games |-> <<>>, total_score |-> 0, opponent_ratings_raw |-> <<>>,
     avg_opponent_rating |-> <<0, 1>>]

\* re.search(r'\((\d{3,4})\)', opponent_text): the number between the brackets
OpponentRating(row) ==
    IF IsNone(row.bracket) THEN None
    ELSE IF AllDigits(The(row.bracket)) /\ Len(The(row.bracket)) \in {3, 4}
    THEN Some(DigitsValue(The(row.bracket)))
    ELSE None

\* lines 359-360
ScoreOf(score_text) ==
    IF score_text = "1" THEN 2 ELSE IF score_text = "½" THEN 1 ELSE 0

\* lines 334-360: the rows from index i on; round_htmls[i] is what fetch_page
\* gave for the round link of row i.  An error of that fetch ends the loop
\* (line 361).
RECURSIVE PlayerGames(_, _, _, _)
PlayerGames(player_data, rows, round_htmls, i) ==
    IF i > Len(rows) THEN player_data
    ELSE LET row == rows[i] IN
         IF row.ncells < 3 THEN PlayerGames(player_data, rows, round_htmls, i + 1)
         ELSE IF ~IsNone(row.round_link) /\ round_htmls[i].kind = "raise" THEN player_data
         ELSE LET game_date == IF ~IsNone(row.round_link) /\ round_htmls[i].kind = "content"
                               THEN round_htmls[i].doc.start_date ELSE None
                  rating == OpponentRating(row)
                  game_data == [round |-> row.round, date |-> game_date,
                                opponent_rating |-> rating, result |-> row.result]
                  d1 == [player_data EXCEPT !.games = Append(@, game_data)]
                  d2 == IF ~IsNone(rating) /\ The(rating) # 0
                        THEN [d1 EXCEPT !.opponent_ratings_raw = Append(@, The(rating))]
                        ELSE d1
                  d3 == [d2 EXCEPT !.total_score = @ + ScoreOf(row.result)]
              IN  PlayerGames(d3, rows, round_htmls, i + 1)

\* lines 284-364
scrape_player_page(player_id, html_content, round_htmls) ==
    IF html_content.kind = "raise" THEN Raise
    ELSE IF html_content.kind = "none" THEN Return(PlayerDataDefault(player_id))
    ELSE LET doc == html_content.doc
             d0 == PlayerDataDefault(player_id)
             \* lines 302-311: without the name the block ends at once
             d1 == IF IsNone(doc.name) THEN d0
                   ELSE IF IsNone(doc.rating_viewer_link)
                   THEN [d0 EXCEPT !.name = The(doc.name)]
                   ELSE [d0 EXCEPT !.name = The(doc.name),
                                   !.universal_id = doc.rating_viewer_link]
             d2 == IF IsNone(doc.games_table) THEN d1
                   ELSE PlayerGames(d1, The(doc.games_table), round_htmls, 1)
         IN  Return([d2 EXCEPT !.avg_opponent_rating =
                        IF d2.opponent_ratings_raw # <<>>
                        THEN Mean(d2.opponent_ratings_raw) ELSE @])

-----------------------------------------------------------------------------
(* The pages scrape_team_page is run on *)

MaxFixtures == 2

PairingBase ==
    [table |-> TRUE, tbody |-> TRUE, thead |-> TRUE, tfoot |-> TRUE,
     player_links |-> <<"Ann", "Bob">>,
     header_links |-> <<"SISSA 1", "OPP 1">>,
     footer |-> << Some(<<"1", "7", "0", "0">>), Some(<<"1", "8", "5", "0">>) >>]

PairingDocs ==
    { PairingBase,
      [PairingBase EXCEPT !.player_links = <<"NN", "NN">>],
      [PairingBase EXCEPT !.player_links = <<"NN">>],
      [PairingBase EXCEPT !.player_links = <<"Ann", "NN">>],
      [PairingBase EXCEPT !.player_links = <<>>],
      [PairingBase EXCEPT !.table = FALSE],
      [PairingBase EXCEPT !.tbody = FALSE, !.player_links = <<>>],
      [PairingBase EXCEPT !.thead = FALSE, !.header_links = <<>>],
      [PairingBase EXCEPT !.tfoot = FALSE, !.footer = <<>>],
      [PairingBase EXCEPT !.header_links = <<"SISSA 1", "OTHER 1">>],
      [PairingBase EXCEPT !.header_links = <<"OPP 1", "SISSA 1">>],
      [PairingBase EXCEPT !.footer = << Some(<<"1", "7", "0", "0">>) >>],
      [PairingBase EXCEPT !.footer = << Some(<<"1", "7", "0", "0">>), None >>],
      [PairingBase EXCEPT !.footer = << Some(<<"1", "7", "0", "0">>), Some(<<"-">>) >>],
      [PairingBase EXCEPT !.footer = << Some(<<"1", "7", "0", "0">>), Some(<<"0">>) >>] }

PairingOutcomes == {NoContent, FetchRaised} \cup {Content(d) : d \in PairingDocs}

\* a fixture row; the date of row i stands for its text
FixtureRows(i) ==
    { [ncells |-> 5, date |-> i, home |-> "SISSA 1", away |-> "OPP 1",
       result |-> "4-4", link |-> Some(Href("pairings", i))],
      [ncells |-> 5, date |-> i, home |-> "OPP 1", away |-> "SISSA 1",
       result |-> "3.5-4.5", link |-> Some(Href("pairings", i))],
      [ncells |-> 5, date |-> i, home |-> "SISSA 1", away |-> "OPP 1",
       result |-> "", link |-> None],
      [ncells |-> 4, date |-> i, home |-> "SISSA 1", away |-> "OPP 1",
       result |-> "4-4", link |-> Some(Href("pairings", i))] }

FixtureTables ==
    UNION { { [tbody |-> TRUE, rows |-> rows] :
                rows \in { f \in [1..n -> UNION {FixtureRows(i) : i \in 1..n}] :
                             \A i \in 1..n : f[i] \in FixtureRows(i) } } :
            n \in 0..MaxFixtures }
    \cup { [tbody |-> FALSE, rows |-> <<>>] }

TeamHeads ==
    { [division_link |-> Some(Href("divisions", "d1")),
       labels |-> << [label |-> "MP", text |-> <<"7">>],
                     [label |-> "BP", text |-> <<"2", "4", ",", "5">>] >>,
       roster |-> Some([tbody |-> TRUE,
                        rows |-> << Some([id |-> "101", name |-> "Alice"]), None,
                                    Some([id |-> "102", name |-> "Bob"]) >>])],
      [division_link |-> None,
       labels |-> << [label |-> "MP", text |-> <<"x">>],
                     [label |-> "BP", text |-> <<"2", "0", ".", "5">>] >>,
       roster |-> None],
      [division_link |-> Some(Href("divisions", "d1")),
       labels |-> << [label |-> "Ronde", text |-> <<"3">>],
                     [label |-> "BP", text |-> <<" ", "3", " ">>] >>,
       roster |-> Some([tbody |-> TRUE,
                        rows |-> << Some([id |-> "101", name |-> "Alice"]),
                                    Some([id |-> "101", name |-> "Alice B"]) >>])],
      [division_link |-> None, labels |-> <<>>,
       roster |-> Some([tbody |-> FALSE, rows |-> <<>>])] }

TeamDocs ==
    { [division_link |-> h.division_link, labels |-> h.labels, roster |-> h.roster,
       matches |-> m] :
        h \in TeamHeads, m \in {None} \cup {Some(t) : t \in FixtureTables} }

TeamPageOutcomes == {NoContent, FetchRaised} \cup {Content(d) : d \in TeamDocs}

TeamInstances ==
    { [name |-> "SISSA 1", url |-> Url("knsb", Href("teams", "t1")), domain |-> "KNSB"] }

-----------------------------------------------------------------------------
(* scrape_team_page, step by step *)

TeamIdle ==
    /\ tm_pc = "idle"
    /\ tm_inst = None
    /\ tm_html = None
    /\ tm_data = None
    /\ tm_idx = 0
    /\ tm_pairings = <<>>

TeamStart ==
    /\ tm_pc = "fetch"
    /\ tm_inst \in {Some(t) : t \in TeamInstances}
    /\ tm_html = None
    /\ tm_data = None
    /\ tm_idx = 0
    /\ tm_pairings = <<>>

\* lines 188-198
TeamFetch ==
    /\ tm_pc = "fetch"
    /\ \E html_content \in TeamPageOutcomes :
         /\ tm_html' = Some(html_content)
         /\ IF html_content.kind = "raise"
            THEN tm_pc' = "raised" /\ UNCHANGED tm_data
            ELSE /\ tm_data' = Some(TeamDataDefault(The(tm_inst)))
                 /\ tm_pc' = IF html_content.kind = "none" THEN "done" ELSE "header"
    /\ UNCHANGED <<tm_inst, tm_idx, tm_pairings>>
    /\ UNCHANGED exceptTmVars

\* lines 200-226
TeamExtractHeader ==
    /\ tm_pc = "header"
    /\ LET h == TeamHeader(The(tm_inst), The(tm_html).doc, The(tm_data)) IN
         IF h.raised
         THEN tm_pc' = "raised" /\ UNCHANGED tm_data
         ELSE tm_pc' = "fixtures" /\ tm_data' = Some(h.value)
    /\ UNCHANGED <<tm_inst, tm_html, tm_idx, tm_pairings>>
    /\ UNCHANGED exceptTmVars

TeamRows ==
    IF IsNone(The(tm_html).doc.matches) THEN <<>> ELSE The(The(tm_html).doc.matches).rows

\* lines 228-231: the fixture table is there and has no body
TeamNoBody ==
    /\ tm_pc = "fixtures"
    /\ ~IsNone(The(tm_html).doc.matches)
    /\ ~The(The(tm_html).doc.matches).tbody
    /\ tm_pc' = "raised"
    /\ UNCHANGED <<tm_inst, tm_html, tm_data, tm_idx, tm_pairings>>
    /\ UNCHANGED exceptTmVars

\* lines 231-244: one row of the fixture table
TeamFixture ==
    /\ tm_pc = "fixtures"
    /\ ~IsNone(The(tm_html).doc.matches)
    /\ The(The(tm_html).doc.matches).tbody
    /\ tm_idx < Len(TeamRows)
    /\ LET row == TeamRows[tm_idx + 1] IN
       \E pairing_html \in IF HasPairingLink(row) THEN PairingOutcomes
                           ELSE {[kind |-> "skipped"]} :
         LET r == TeamFixtureRow(The(tm_inst), The(tm_data), row, pairing_html) IN
           /\ tm_pairings' = Append(tm_pairings, pairing_html)
           /\ tm_idx' = tm_idx + 1
           /\ IF r.raised
              THEN tm_pc' = "raised" /\ UNCHANGED tm_data
              ELSE tm_data' = Some(r.value) /\ UNCHANGED tm_pc
    /\ UNCHANGED <<tm_inst, tm_html>>
    /\ UNCHANGED exceptTmVars

\* line 250
TeamReturn ==
    /\ tm_pc = "fixtures"
    /\ IF IsNone(The(tm_html).doc.matches) THEN TRUE
       ELSE The(The(tm_html).doc.matches).tbody /\ tm_idx = Len(TeamRows)
    /\ tm_pc' = "done"
    /\ UNCHANGED <<tm_inst, tm_html, tm_data, tm_idx, tm_pairings>>
    /\ UNCHANGED exceptTmVars

TeamNext == TeamFetch \/ TeamExtractHeader \/ TeamNoBody \/ TeamFixture \/ TeamReturn

-----------------------------------------------------------------------------
(* load_data (dashboard.py) *)

MaxFederationIds == 2

LocalIds == {"101", "102", "103"}

\* the rosters a persisted team can carry: the local ids are the keys
Rosters ==
    { <<>>,
      << <<"101", [name |-> "Alice"]>> >>,
      << <<"102", [name |-> "Bob"]>> >>,
      << <<"101", [name |-> "Alice"]>>, <<"102", [name |-> "Bob"]>> >> }

\* chess_team_data.json: team name -> Team; the names are the keys of a dict
TeamFiles ==
    { <<>> }
    \cup { << <<n, [name |-> n, players |-> r]>> >> :
             n \in {"SISSA 1", "SISSA 2"}, r \in Rosters }
    \cup { << <<n[1], [name |-> n[1], players |-> r1]>>,
              <<n[2], [name |-> n[2], players |-> r2]>> >> :
             n \in {<<"SISSA 1", "SISSA 2">>, <<"SISSA 2", "SISSA 1">>},
             r1 \in Rosters, r2 \in Rosters }

FederationIdLists ==
    UNION { [1..n -> LocalIds] : n \in 1..MaxFederationIds }

\* chess_player_data.json: universal id -> Player
PlayerFiles ==
    { <<>> }
    \cup { << <<"900", [federation_ids |-> f]>> >> : f \in FederationIdLists }
    \cup { << <<"900", [federation_ids |-> f]>>, <<"901", [federation_ids |-> g]>> >> :
             f \in FederationIdLists, g \in FederationIdLists }

\* lines 85-89: the dict comprehension over the team rows and their roster keys
RECURSIVE InvertRoster(_, _, _)
InvertRoster(index, team_name, keys) ==
    IF keys = <<>> THEN index
    ELSE InvertRoster(DictSet(index, Head(keys), team_name), team_name, Tail(keys))

RECURSIVE fed_id_to_team(_, _)
fed_id_to_team(team_rows, index) ==
    IF team_rows = <<>> THEN index
    ELSE fed_id_to_team(Tail(team_rows),
             InvertRoster(index, Head(team_rows).name, DictKeys(Head(team_rows).players)))

\* lines 90-96; list(teams) has the order of a set: it is kept as the set
get_teams_for_player(player_row, index) ==
    LET teams == { DictGet(index, fed_id) :
                     fed_id \in {f \in Range(player_row.federation_ids) : DictHas(index, f)} }
    IN  IF teams # {} THEN teams ELSE {"Unknown"}

\* lines 70-107: the frames it returns, a frame being the sequence of its rows
load_data(team_file, player_file) ==
    IF IsNone(team_file) \/ IsNone(player_file)
    THEN [team_df |-> <<>>, player_df |-> <<>>, error |-> TRUE]
    ELSE LET team_df == DictValues(The(team_file))
             player_df == DictValues(The(player_file))
         IN  IF team_df # <<>>
             THEN LET index == fed_id_to_team(team_df, <<>>) IN
                  [team_df |-> team_df,
                   player_df |-> [i \in 1..Len(player_df) |->
                       [federation_ids |-> player_df[i].federation_ids,
                        teams_played_for |-> Some(get_teams_for_player(player_df[i], index))]],
                   error |-> FALSE]
             ELSE [team_df |-> team_df,
                   player_df |-> [i \in 1..Len(player_df) |->
                       [federation_ids |-> player_df[i].federation_ids,
                        teams_played_for |-> None]],
                   error |-> FALSE]

LoadIdle ==
    /\ ld_pc = "idle"
    /\ ld_team_file = None
    /\ ld_player_file = None
    /\ ld_result = None

LoadStart ==
    /\ ld_pc = "start"
    /\ ld_team_file \in {None} \cup {Some(f) : f \in TeamFiles}
    /\ ld_player_file \in {None} \cup {Some(f) : f \in PlayerFiles}
    /\ ld_result = None

LoadData ==
    /\ ld_pc = "start"
    /\ ld_result' = Some(load_data(ld_team_file, ld_player_file))
    /\ ld_pc' = "loaded"
    /\ UNCHANGED <<ld_team_file, ld_player_file>>
    /\ UNCHANGED exceptLdVars

LoadNext == LoadData

-----------------------------------------------------------------------------
(* fetch_historical_ratings *)

MaxEntries == 3

\* datetime: the day number of a date of the proleptic Gregorian calendar
IsLeap(year) == year % 4 = 0 /\ (year % 100 # 0 \/ year % 400 = 0)

DaysInMonth(year, month) ==
    IF month = 2 THEN (IF IsLeap(year) THEN 29 ELSE 28)
    ELSE IF month \in {4, 6, 9, 11} THEN 30 ELSE 31

DaysBeforeMonth(year, month) ==
    <<0, 31, 59, 90, 120, 151, 181, 212, 243, 273, 304, 334>>[month]
        + (IF month > 2 /\ IsLeap(year) THEN 1 ELSE 0)

Ordinal(date) ==
    LET y == date.year - 1 IN
    365 * y + (y \div 4) - (y \div 100) + (y \div 400)
        + DaysBeforeMonth(date.year, date.month) + date.day

\* a datetime is <<day number, seconds of the day>>
DateTime(date, seconds) == <<Ordinal(date), seconds>>
MinusDays(datetime, days) == <<datetime[1] - days, datetime[2]>>
NotAfter(a, b) == a[1] < b[1] \/ (a[1] = b[1] /\ a[2] <= b[2])

\* text.split(sep)[0]
RECURSIVE UpTo(_, _)
UpTo(text, sep) ==
    IF text = <<>> \/ Head(text) = sep THEN <<>>
    ELSE <<Head(text)>> \o UpTo(Tail(text), sep)

\* text.split(sep)
RECURSIVE Split(_, _)
Split(text, sep) ==
    LET first == UpTo(text, sep) IN
    IF Len(first) = Len(text) THEN <<first>>
    ELSE <<first>> \o Split(SubSeq(text, Len(first) + 2, Len(text)), sep)

\* datetime.strptime(text, '%Y-%m-%d'): None stands for ValueError
ParseDate(text) ==
    LET fields == Split(text, "-") IN
    IF Len(fields) # 3 THEN None
    ELSE IF \E i \in 1..3 : fields[i] = <<>> \/ ~AllDigits(fields[i]) THEN None
    ELSE IF Len(fields[1]) # 4 \/ Len(fields[2]) > 2 \/ Len(fields[3]) > 2 THEN None
    ELSE LET year == DigitsValue(fields[1])
             month == DigitsValue(fields[2])
             day == DigitsValue(fields[3])
         IN  IF year < 1 \/ month \notin 1..12 THEN None
             ELSE IF day \notin 1..DaysInMonth(year, month) THEN None
             ELSE Some([year |-> year, month |-> month, day |-> day])

DigitChar(n) == CHOOSE c \in Digits : DigitValue(c) = n

\* a number in `width` digits, zero-padded
RECURSIVE Padded(_, _)
Padded(n, width) ==
    IF width = 0 THEN <<>>
    ELSE Padded(n \div 10, width - 1) \o <<DigitChar(n % 10)>>

\* date.strftime('%Y-%m')
PeriodKey(date) == Padded(date.year, 4) \o <<"-">> \o Padded(date.month, 2)

\* the order of str: code point by code point, a prefix first
CodePoint(c) == IF c = "-" THEN 45 ELSE 48 + DigitValue(c)

RECURSIVE StrLess(_, _)
StrLess(a, b) ==
    IF b = <<>> THEN FALSE
    ELSE IF a = <<>> THEN TRUE
    ELSE IF Head(a) # Head(b) THEN CodePoint(Head(a)) < CodePoint(Head(b))
    ELSE StrLess(Tail(a), Tail(b))

\* sorted(historical_data.items()): the keys of a dict differ
RECURSIVE InsertItem(_, _)
InsertItem(sorted_items, item) ==
    IF sorted_items = <<>> THEN <<item>>
    ELSE IF StrLess(item[1], Head(sorted_items)[1]) THEN <<item>> \o sorted_items
    ELSE <<Head(sorted_items)>> \o InsertItem(Tail(sorted_items), item)

RECURSIVE Sorted(_)
Sorted(items) ==
    IF items = <<>> THEN <<>>
    ELSE InsertItem(Sorted(SubSeq(items, 1, Len(items) - 1)), items[Len(items)])

\* the pass that lets a later entry of a month replace the earlier one
record_entry_keeping_last(historical_data, rating_entry, now) ==
    IF ~rating_entry.is_dict \/ IsNone(rating_entry.moment) THEN historical_data
    ELSE LET list_date == ParseDate(UpTo(The(rating_entry.moment), "T")) IN
         IF IsNone(list_date) THEN historical_data
         ELSE IF NotAfter(MinusDays(now, 365), DateTime(The(list_date), 0))
                 /\ NotAfter(DateTime(The(list_date), 0), now)
                 /\ ~IsNone(rating_entry.rating)
         THEN DictSet(historical_data, PeriodKey(The(list_date)),
                      The(rating_entry.rating))
         ELSE historical_data

\* lines 130-147: one pass of the loop over rating_list
RecordEntry(historical_data, rating_entry, now) ==
    IF ~rating_entry.is_dict THEN historical_data                    \* line 131
    ELSE IF IsNone(rating_entry.moment) THEN historical_data          \* line 135
    ELSE LET list_date == ParseDate(UpTo(The(rating_entry.moment), "T")) IN
         IF IsNone(list_date) THEN historical_data                    \* line 146
         ELSE IF NotAfter(MinusDays(now, 365), DateTime(The(list_date), 0))
                 /\ NotAfter(DateTime(The(list_date), 0), now)
         THEN LET period_key == PeriodKey(The(list_date)) IN
              IF ~IsNone(rating_entry.rating) /\ ~DictHas(historical_data, period_key)
              THEN DictSet(historical_data, period_key, The(rating_entry.rating))
              ELSE historical_data
         ELSE historical_data

\* the moments and ratings the rating list can hold
Moment(text) == Some(text)

RatingEntry(moment, rating) == [is_dict |-> TRUE, moment |-> moment, rating |-> rating]

RatingEntries ==
    { RatingEntry(Moment(<<"2","0","2","6","-","1","1","-","0","3","T","0","8">>), Some(1800)),
      RatingEntry(Moment(<<"2","0","2","6","-","1","1","-","0","4">>), Some(1810)),
      RatingEntry(Moment(<<"2","0","2","6","-","1","0","-","1","5","T","0","0">>), Some(1790)),
      RatingEntry(Moment(<<"2","0","2","6","-","1","0","-","0","1">>), Some(1780)),
      RatingEntry(Moment(<<"2","0","2","6","-","1","0","-","2","0">>), None),
      RatingEntry(Moment(<<"2","0","2","6","-","2","-","7">>), Some(1750)),
      RatingEntry(Moment(<<"2","0","2","5","-","1","1","-","0","3">>), Some(1700)),
      RatingEntry(Moment(<<"2","0","2","5","-","1","1","-","0","4">>), Some(1710)),
      RatingEntry(Moment(<<"2","0","2","6","-","1","3","-","0","1">>), Some(1600)),
      RatingEntry(None, Some(1500)),
      [is_dict |-> FALSE, moment |-> None, rating |-> None] }

RatingLists == UNION { [1..n -> RatingEntries] : n \in 0..MaxEntries }

\* requests.get(...).json(), or a RequestException
Responses ==
    {[kind |-> "error"]} \cup {[kind |-> "list", rating_list |-> l] : l \in RatingLists}

\* datetime.now(): 3 November 2026, at midnight or in the afternoon
Nows ==
    { DateTime([year |-> 2026, month |-> 11, day |-> 3], seconds) :
        seconds \in {0, 54000} }

HistIdle ==
    /\ hr_pc = "idle" /\ hr_now = <<>> /\ hr_response = <<>>
    /\ hr_i = 0 /\ hr_data = <<>> /\ hr_ret = <<>>

\* lines 112-116
HistStart ==
    /\ hr_pc = "request"
    /\ hr_now \in Nows
    /\ hr_response \in Responses
    /\ hr_i = 0 /\ hr_data = <<>> /\ hr_ret = <<>>

\* lines 118-127 and 149-150
HistRequest ==
    /\ hr_pc = "request"
    /\ hr_pc' = IF hr_response.kind = "error" THEN "finish" ELSE "entries"
    /\ UNCHANGED <<hr_now, hr_response, hr_i, hr_data, hr_ret>>
    /\ UNCHANGED exceptHrVars

\* lines 129-147
HistEntry ==
    /\ hr_pc = "entries"
    /\ hr_i < Len(hr_response.rating_list)
    /\ hr_data' = RecordEntry(hr_data, hr_response.rating_list[hr_i + 1], hr_now)
    /\ hr_i' = hr_i + 1
    /\ UNCHANGED <<hr_pc, hr_now, hr_response, hr_ret>>
    /\ UNCHANGED exceptHrVars

\* the loop is over
HistLoopEnd ==
    /\ hr_pc = "entries"
    /\ hr_i = Len(hr_response.rating_list)
    /\ hr_pc' = "finish"
    /\ UNCHANGED <<hr_now, hr_response, hr_i, hr_data, hr_ret>>
    /\ UNCHANGED exceptHrVars

\* lines 152-159
HistReturn ==
    /\ hr_pc = "finish"
    /\ hr_ret' = IF hr_data = <<>> THEN <<>> ELSE Sorted(hr_data)
    /\ hr_pc' = "returned"
    /\ UNCHANGED <<hr_now, hr_response, hr_i, hr_data>>
    /\ UNCHANGED exceptHrVars

HistNext == HistRequest \/ HistEntry \/ HistLoopEnd \/ HistReturn

-----------------------------------------------------------------------------
(* The sites the crawl is run on: two competition phases of SISSA 1 and the *)
(* opponent OPP 1 at knsb, sissa 2 and another OPP 1 at nosbo.  Alice plays  *)
(* under local id 55 at knsb and 77 at nosbo.  The local id t9 is OPP 1 at   *)
(* knsb and OPP 2 at nosbo; the local id 57 is Dan at knsb and Eve at nosbo. *)

Text(n) ==
    CASE n = 0 -> <<"0">>
      [] n = 1400 -> <<"1", "4", "0", "0">>
      [] n = 1500 -> <<"1", "5", "0", "0">>
      [] n = 1600 -> <<"1", "6", "0", "0">>
      [] n = 1700 -> <<"1", "7", "0", "0">>
      [] n = 1800 -> <<"1", "8", "0", "0">>
      [] n = 1850 -> <<"1", "8", "5", "0">>

\* the competition pages a domain can show
IndexDocs(domain_key) ==
    IF domain_key = "knsb"
    THEN { [links |-> << [text |-> <<"SISSA", "1">>, href |-> Href("teams", "t1")],
                         [text |-> <<"OPP", "1">>, href |-> Href("teams", "t9")] >>],
           [links |-> << [text |-> <<"SISSA", "1">>, href |-> Href("teams", "t1")],
                         [text |-> <<"SISSA", "1">>, href |-> Href("teams", "t2")] >>],
           [links |-> << [text |-> <<"Uitslagen">>, href |-> Href("rounds", "r1")],
                         [text |-> <<"OPP", "1">>, href |-> Href("teams", "t9")] >>] }
    ELSE { [links |-> << [text |-> <<"sissa", "2">>, href |-> Href("teams", "t3")] >>],
           [links |-> <<>>] }

Fixture(date, home, away, result) ==
    [ncells |-> 5, date |-> date, home |-> home, away |-> away, result |-> result,
     link |-> Some(Href("pairings", date))]

TeamDocOf(division, mp, bp, roster, fixtures) ==
    [division_link |-> Some(Href("divisions", division)),
     labels |-> << [label |-> "MP", text |-> mp], [label |-> "BP", text |-> bp] >>,
     roster |-> IF roster = <<>> THEN None
                ELSE Some([tbody |-> TRUE, rows |-> roster]),
     matches |-> Some([tbody |-> TRUE, rows |-> fixtures])]

\* the team page behind a team URL
TeamDoc(url) ==
    CASE url.id = "t1" ->
           TeamDocOf("d1", <<"4">>, <<"1", "2", ",", "5">>,
                     << Some([id |-> "55", name |-> "Alice"]) >>,
                     << Fixture(1, <<"SISSA", "1">>, <<"OPP", "1">>, "4-4") >>)
      [] url.id = "t2" ->
           TeamDocOf("d1", <<"2">>, <<"8">>,
                     << Some([id |-> "56", name |-> "Bob"]) >>,
                     << Fixture(2, <<"OPP", "1">>, <<"SISSA", "1">>, "3.5-4.5") >>)
      [] url.id = "t3" ->
           TeamDocOf("d2", <<"0">>, <<"0">>,
                     << Some([id |-> "77", name |-> "Alice"]) >>,
                     << Fixture(3, <<"sissa", "2">>, <<"OPP", "1">>, "0-0") >>)
      [] url.id = "t9" /\ url.host = "knsb" ->
           TeamDocOf("d1", <<"2">>, <<"1", "1", ".", "5">>,
                     << Some([id |-> "57", name |-> "Dan"]) >>,
                     << Fixture(4, <<"SISSA", "1">>, <<"OPP", "1">>, "4-4") >>)
      [] OTHER ->
           TeamDocOf("d2", <<"1">>, <<"4">>, <<>>,
                     << Fixture(5, <<"OPP", "1">>, <<"sissa", "2">>, "4-4") >>)

\* the pairing page behind a fixture's link
PairingDoc(href) ==
    CASE href.id = 1 ->
           [PairingBase EXCEPT !.header_links = << <<"SISSA", "1">>, <<"OPP", "1">> >>,
                               !.footer = << Some(Text(1700)), Some(Text(1850)) >>]
      [] href.id = 2 ->
           [PairingBase EXCEPT !.header_links = << <<"OPP", "1">>, <<"SISSA", "1">> >>,
                               !.footer = << Some(Text(1700)), Some(Text(1600)) >>]
      [] href.id = 3 ->
           [PairingBase EXCEPT !.header_links = << <<"sissa", "2">>, <<"OPP", "1">> >>,
                               !.player_links = <<"NN", "NN">>]
      [] href.id = 4 ->
           [PairingBase EXCEPT !.header_links = << <<"SISSA", "1">>, <<"OPP", "1">> >>,
                               !.footer = << Some(Text(1700)), Some(Text(1850)) >>]
      [] OTHER ->
           [PairingBase EXCEPT !.header_links = << <<"OPP", "1">>, <<"sissa", "2">> >>,
                               !.footer = << Some(Text(1600)), Some(Text(1500)) >>]

\* the division page behind a division URL
DivisionDoc(url) ==
    IF url.id = "d1"
    THEN [h1 |-> Some(<<"Klasse", "1A">>),
          teams_table |-> Some([tbody |-> TRUE,
              rows |-> << Some([id |-> "t1", name |-> <<"SISSA", "1">>]), None,
                          Some([id |-> "t9", name |-> <<"OPP", "1">>]) >>]),
          players_table |-> Some([tbody |-> TRUE,
              rows |-> << [link |-> Some([id |-> "55", name |-> "Alice"]),
                           elo |-> Some(Text(1800))],
                          [link |-> Some([id |-> "57", name |-> "Dan"]),
                           elo |-> Some(<<"-">>)] >>])]
    ELSE [h1 |-> Some(<<"NOSBO", "1">>),
          teams_table |-> Some([tbody |-> TRUE,
              rows |-> << Some([id |-> "t3", name |-> <<"sissa", "2">>]),
                          Some([id |-> "t8", name |-> <<"OPP", "1">>]),
                          Some([id |-> "t9", name |-> <<"OPP", "2">>]) >>]),
          players_table |-> Some([tbody |-> TRUE,
              rows |-> << [link |-> Some([id |-> "77", name |-> "Alice"]),
                           elo |-> Some(Text(1700))],
                          [link |-> Some([id |-> "57", name |-> "Eve"]),
                           elo |-> Some(Text(1600))] >>])]

Game(round, link, bracket, result) ==
    [ncells |-> 4, round |-> round, round_link |-> link, bracket |-> bracket,
     result |-> result]

\* the player page behind a player URL
PlayerDoc(url) ==
    CASE url.id = "55" ->
           [name |-> Some("Alice"), rating_viewer_link |-> Some("900"),
            games_table |-> Some(<< Game(1, None, Some(Text(1500)), "1"),
                                    Game(2, None, Some(Text(1600)), "½") >>)]
      [] url.id = "77" ->
           [name |-> Some("Alice"), rating_viewer_link |-> Some("900"),
            games_table |-> Some(<< Game(1, Some(Href("rounds", "r7")),
                                         Some(Text(1700)), "1") >>)]
      [] url.id = "56" ->
           [name |-> Some("Bob"), rating_viewer_link |-> None,
            games_table |-> Some(<< Game(1, None, Some(Text(1400)), "0") >>)]
      [] url.id = "57" /\ url.host = "nosbo" ->
           [name |-> Some("Eve"), rating_viewer_link |-> Some("902"),
            games_table |-> None]
      [] OTHER ->
           [name |-> Some("Dan"), rating_viewer_link |-> Some("901"),
            games_table |-> Some(<< Game(1, None, Some(Text(1800)), "½"),
                                    Game(2, None, None, "1") >>)]

RoundDoc == [start_date |-> Some("2024-09-21")]

\* what fetch_page can give for a page
Fetches(doc) == {NoContent, FetchRaised, Content(doc)}

-----------------------------------------------------------------------------
(* run_scraper: discovery and the first team stage *)

\* CLUB_TEAM_PREFIX (line 491)
CLUB_TEAM_PREFIX == "SISSA"

\* a list executor.map is filling: the indexes still running, and whether a
\* call raised (list(...) then raises in run_scraper)
Pending(results) == {i \in 1..Len(results) : IsNone(results[i])}
AnyRaised(results) == \E i \in 1..Len(results) : The(results[i]).raised
Values(results) == [i \in 1..Len(results) |-> The(results[i]).value]
Unfilled(n) == [i \in 1..n |-> None]

BagAdd(bag, key) ==
    IF key \in DOMAIN bag THEN [bag EXCEPT ![key] = @ + 1] ELSE bag @@ (key :> 1)

RunIdle ==
    /\ pc = "idle"
    /\ comp_pages = <<>> /\ sissa_teams_to_find = <<>>
    /\ sissa_team_data_list = <<>> /\ cached_team_data = <<>>
    /\ unique_division_urls = <<>> /\ division_results = <<>>
    /\ all_divisions_data = <<>> /\ all_teams_to_scrape = <<>>
    /\ all_players_in_divisions = <<>> /\ team_instances = <<>>
    /\ newly_scraped_team_data = <<>> /\ final_team_data_list = <<>>
    /\ aggregated_teams_data = <<>> /\ all_teams_data = <<>>
    /\ unique_players_to_scrape = <<>> /\ player_data_list = <<>>
    /\ aggregated_players_data = <<>> /\ all_players_data = <<>>
    /\ agg_i = 0 /\ fetches = <<>> /\ pairing_pages = <<>>
    /\ persist_log = <<>>

\* lines 366-369
RunStart ==
    /\ pc = "discover"
    /\ comp_pages = <<>> /\ sissa_teams_to_find = <<>>
    /\ sissa_team_data_list = <<>> /\ cached_team_data = <<>>
    /\ unique_division_urls = <<>> /\ division_results = <<>>
    /\ all_divisions_data = <<>> /\ all_teams_to_scrape = <<>>
    /\ all_players_in_divisions = <<>> /\ team_instances = <<>>
    /\ newly_scraped_team_data = <<>> /\ final_team_data_list = <<>>
    /\ aggregated_teams_data = <<>> /\ all_teams_data = <<>>
    /\ unique_players_to_scrape = <<>> /\ player_data_list = <<>>
    /\ aggregated_players_data = <<>> /\ all_players_data = <<>>
    /\ agg_i = 0 /\ fetches = <<>> /\ pairing_pages = <<>>
    /\ persist_log = <<>>

CompetitionUrl(domain_key) == Url(domain_key, Href("scores", "index"))

\* lines 370-373: scrape_competition_pages fetches the two competition pages
\* one after the other; an error of the first fetch leaves the second undone
Discover ==
    /\ pc = "discover"
    /\ \E first \in UNION {Fetches(d) : d \in IndexDocs(Domains[1])},
          second \in UNION {Fetches(d) : d \in IndexDocs(Domains[2])} :
         LET pages == IF first.kind = "raise" THEN <<first>> ELSE <<first, second>>
             found == scrape_competition_pages(CLUB_TEAM_PREFIX, pages, 1)
         IN  /\ comp_pages' = pages
             /\ fetches' = IF Len(pages) = 1
                           THEN BagAdd(fetches, <<"index", CompetitionUrl(Domains[1])>>)
                           ELSE BagAdd(BagAdd(fetches, <<"index", CompetitionUrl(Domains[1])>>),
                                       <<"index", CompetitionUrl(Domains[2])>>)
             /\ IF \E i \in 1..Len(pages) : pages[i].kind = "raise"
                THEN /\ pc' = "crashed"
                     /\ UNCHANGED <<sissa_teams_to_find, sissa_team_data_list>>
                ELSE /\ sissa_teams_to_find' = found
                     /\ sissa_team_data_list' = Unfilled(Len(found))
                     /\ pc' = IF found = <<>> THEN "returned" ELSE "fetch_teams"
    /\ UNCHANGED <<cached_team_data, unique_division_urls, divisionStageVars, teamAggVars,
                   playerVars, agg_i, pairing_pages, persist_log>>
    /\ UNCHANGED exceptRunVars

\* what fetch_page can give for the pairing links of a team page
PairingFetches(doc) ==
    LET rows == The(doc.matches).rows IN
    { f \in [1..Len(rows) ->
               UNION {Fetches(PairingDoc(The(rows[i].link))) : i \in 1..Len(rows)}] :
        \A i \in 1..Len(rows) : f[i] \in Fetches(PairingDoc(The(rows[i].link))) }

\* what a worker's scrape_team_page(team_instance) can come to
TeamScrapes(team_instance) ==
    { scrape_team_page(team_instance, html, pairings) :
        html \in Fetches(TeamDoc(team_instance.url)),
        pairings \in PairingFetches(TeamDoc(team_instance.url)) }

\* lines 239-241: the pairing pages the call fetched, each with what
\* fetch_page gave for it; an error ends the call
RECURSIVE FetchedPairings(_, _, _, _, _)
FetchedPairings(team_instance, team_data, rows, pairing_htmls, i) ==
    IF i > Len(rows) THEN <<>>
    ELSE LET r == TeamFixtureRow(team_instance, team_data, rows[i], pairing_htmls[i])
             page == IF HasPairingLink(rows[i])
                     THEN (<<team_instance.url,
                             Url(Lower(team_instance.domain), The(rows[i].link))>>
                               :> pairing_htmls[i])
                     ELSE <<>>
         IN  IF r.raised THEN page
             ELSE page @@ FetchedPairings(team_instance, r.value, rows, pairing_htmls, i + 1)

\* the pairing pages of a call of scrape_team_page
PairingsOfCall(team_instance, html_content, pairing_htmls) ==
    IF html_content.kind # "content" THEN <<>>
    ELSE LET doc == html_content.doc
             h == TeamHeader(team_instance, doc, TeamDataDefault(team_instance))
         IN  IF h.raised \/ IsNone(doc.matches) THEN <<>>
             ELSE IF ~The(doc.matches).tbody THEN <<>>
             ELSE FetchedPairings(team_instance, h.value, The(doc.matches).rows,
                                  pairing_htmls, 1)

\* the results taken in the order the workers finish: the next free place
\* of the list gets the result of whichever call is over
scrape_team_in_arrival_order ==
    /\ pc = "fetch_teams"
    /\ \E i \in 1..Len(sissa_teams_to_find) :
       \E html \in Fetches(TeamDoc(sissa_teams_to_find[i].url)),
          pairings \in PairingFetches(TeamDoc(sissa_teams_to_find[i].url)) :
         /\ <<"team", sissa_teams_to_find[i].url>> \notin DOMAIN fetches
         /\ sissa_team_data_list' =
                [sissa_team_data_list EXCEPT
                    ![Len(sissa_team_data_list)
                        - Cardinality(Pending(sissa_team_data_list)) + 1] =
                        Some(scrape_team_page(sissa_teams_to_find[i], html, pairings))]
         /\ fetches' = BagAdd(fetches, <<"team", sissa_teams_to_find[i].url>>)
         /\ pairing_pages' =
                pairing_pages @@ PairingsOfCall(sissa_teams_to_find[i], html, pairings)
    /\ UNCHANGED <<pc, discoverVars, cached_team_data, unique_division_urls,
                   divisionStageVars, teamAggVars, playerVars, agg_i, persist_log>>
    /\ UNCHANGED exceptRunVars

\* lines 375-376: one worker of executor.map(scrape_team_page, ...)
ScrapeTeam ==
    /\ pc = "fetch_teams"
    /\ \E i \in Pending(sissa_team_data_list) :
       \E html \in Fetches(TeamDoc(sissa_teams_to_find[i].url)),
          pairings \in PairingFetches(TeamDoc(sissa_teams_to_find[i].url)) :
         /\ sissa_team_data_list' =
                [sissa_team_data_list EXCEPT
                    ![i] = Some(scrape_team_page(sissa_teams_to_find[i], html, pairings))]
         /\ fetches' = BagAdd(fetches, <<"team", sissa_teams_to_find[i].url>>)
         /\ pairing_pages' =
                pairing_pages @@ PairingsOfCall(sissa_teams_to_find[i], html, pairings)
    /\ UNCHANGED <<pc, discoverVars, cached_team_data, unique_division_urls,
                   divisionStageVars, teamAggVars, playerVars, agg_i, persist_log>>
    /\ UNCHANGED exceptRunVars

\* lines 377-380: the loop over sissa_team_data_list, from index i on
RECURSIVE CacheTeams(_, _, _, _)
CacheTeams(team_data_list, cached, urls, i) ==
    IF i > Len(team_data_list) THEN [cached |-> cached, urls |-> urls]
    ELSE LET team_data == team_data_list[i]
             div_url == team_data.division_url
         IN  CacheTeams(team_data_list,
                        DictSet(cached, team_data.name, team_data),
                        IF IsNone(div_url) THEN urls
                        ELSE DictSet(urls, The(div_url), The(div_url).host),
                        i + 1)

\* the loop of lines 377-380 run on the results that are there, as they
\* would be taken from the futures as they complete
collect_teams_as_completed ==
    /\ pc = "fetch_teams"
    /\ Pending(sissa_team_data_list) # DOMAIN sissa_team_data_list
    /\ LET done == SelectSeq(sissa_team_data_list, LAMBDA r : ~IsNone(r)) IN
       IF AnyRaised(done)
       THEN /\ pc' = "crashed"
            /\ UNCHANGED <<cached_team_data, unique_division_urls, division_results>>
       ELSE LET c == CacheTeams(Values(done), <<>>, <<>>, 1) IN
            /\ cached_team_data' = c.cached
            /\ unique_division_urls' = c.urls
            /\ division_results' = Unfilled(Len(c.urls))
            /\ pc' = IF c.urls = <<>> THEN "returned" ELSE "fetch_divisions"
    /\ UNCHANGED <<discoverVars, sissa_team_data_list, all_divisions_data,
                   all_teams_to_scrape, all_players_in_divisions, team_instances,
                   teamAggVars, playerVars, agg_i, fetches, pairing_pages, persist_log>>
    /\ UNCHANGED exceptRunVars

\* lines 376-384: the stage has drained
CollectTeams ==
    /\ pc = "fetch_teams"
    /\ Pending(sissa_team_data_list) = {}
    /\ IF AnyRaised(sissa_team_data_list)
       THEN /\ pc' = "crashed"
            /\ UNCHANGED <<cached_team_data, unique_division_urls, division_results>>
       ELSE LET c == CacheTeams(Values(sissa_team_data_list), <<>>, <<>>, 1) IN
            /\ cached_team_data' = c.cached
            /\ unique_division_urls' = c.urls
            /\ division_results' = Unfilled(Len(c.urls))
            /\ pc' = IF c.urls = <<>> THEN "returned" ELSE "fetch_divisions"
    /\ UNCHANGED <<discoverVars, sissa_team_data_list, all_divisions_data,
                   all_teams_to_scrape, all_players_in_divisions, team_instances,
                   teamAggVars, playerVars, agg_i, fetches, pairing_pages, persist_log>>
    /\ UNCHANGED exceptRunVars

-----------------------------------------------------------------------------
(* run_scraper: the divisions and the remaining teams *)

\* lines 386-387: one worker of executor.map(scrape_division_page, ...)
ScrapeDivision ==
    /\ pc = "fetch_divisions"
    /\ \E i \in Pending(division_results) :
       \E html \in Fetches(DivisionDoc(unique_division_urls[i][1])) :
         /\ division_results' =
                [division_results EXCEPT
                    ![i] = Some(scrape_division_page(html, unique_division_urls[i][2]))]
         /\ fetches' = BagAdd(fetches, <<"division", unique_division_urls[i][1]>>)
    /\ UNCHANGED <<pc, discoverVars, teamStageVars, all_divisions_data,
                   all_teams_to_scrape, all_players_in_divisions, team_instances,
                   teamAggVars, playerVars, agg_i, pairing_pages, persist_log>>
    /\ UNCHANGED exceptRunVars

\* lines 392-393: the teams of one division, by local id; the first is kept
RECURSIVE AddDivisionTeams(_, _, _)
AddDivisionTeams(to_scrape, teams, domain) ==
    IF teams = <<>> THEN to_scrape
    ELSE LET team_id == teams[1][1]
             team_info == teams[1][2]
         IN  AddDivisionTeams(
                 IF DictHas(to_scrape, team_id) THEN to_scrape
                 ELSE DictSet(to_scrape, team_id,
                          [name |-> team_info.name,
                           url |-> Url(Lower(domain), Href("teams", team_id)),
                           domain |-> domain]),
                 Tail(teams), domain)

\* lines 394-395: the players of one division, by local id; the first is kept
RECURSIVE AddDivisionPlayers(_, _, _)
AddDivisionPlayers(in_divisions, players, domain) ==
    IF players = <<>> THEN in_divisions
    ELSE LET player_id == players[1][1]
             player_info == players[1][2]
         IN  AddDivisionPlayers(
                 IF DictHas(in_divisions, player_id) THEN in_divisions
                 ELSE DictSet(in_divisions, player_id,
                          [name |-> player_info.name, elo |-> player_info.elo,
                           url |-> Url(Lower(domain), Href("players", player_id)),
                           domain |-> domain]),
                 Tail(players), domain)

\* lines 388-395: the loop over division_results, from index i on
RECURSIVE CollectDivisionResults(_, _, _, _, _)
CollectDivisionResults(results, divisions, to_scrape, in_divisions, i) ==
    IF i > Len(results)
    THEN [divisions |-> divisions, to_scrape |-> to_scrape, in_divisions |-> in_divisions]
    ELSE LET res == results[i] IN
         IF res.name = <<>>
         THEN CollectDivisionResults(results, divisions, to_scrape, in_divisions, i + 1)
         ELSE CollectDivisionResults(results,
                  DictSet(divisions, res.name, res),
                  AddDivisionTeams(to_scrape, res.teams, res.federation),
                  AddDivisionPlayers(in_divisions, res.players, res.federation),
                  i + 1)

\* lines 396-397
RECURSIVE TeamsToScrapeNow(_, _)
TeamsToScrapeNow(to_scrape, cached) ==
    IF to_scrape = <<>> THEN <<>>
    ELSE LET t == to_scrape[1][2]
             rest == TeamsToScrapeNow(Tail(to_scrape), cached)
         IN  IF DictHas(cached, t.name) THEN rest
             ELSE <<[name |-> t.name, url |-> t.url, domain |-> t.domain]>> \o rest

\* lines 387-398: the stage has drained
CollectDivisions ==
    /\ pc = "fetch_divisions"
    /\ Pending(division_results) = {}
    /\ IF AnyRaised(division_results)
       THEN /\ pc' = "crashed"
            /\ UNCHANGED <<all_divisions_data, all_teams_to_scrape,
                           all_players_in_divisions, team_instances,
                           newly_scraped_team_data>>
       ELSE LET c == CollectDivisionResults(Values(division_results), <<>>, <<>>, <<>>, 1)
                now == TeamsToScrapeNow(c.to_scrape, cached_team_data)
            IN  /\ all_divisions_data' = c.divisions
                /\ all_teams_to_scrape' = c.to_scrape
                /\ all_players_in_divisions' = c.in_divisions
                /\ team_instances' = now
                /\ newly_scraped_team_data' = Unfilled(Len(now))
                /\ pc' = "fetch_remaining"
    /\ UNCHANGED <<discoverVars, teamStageVars, division_results, final_team_data_list,
                   aggregated_teams_data, all_teams_data, playerVars, agg_i, fetches, pairing_pages,
                   persist_log>>
    /\ UNCHANGED exceptRunVars

\* lines 399-400: one worker of executor.map(scrape_team_page, team_instances)
ScrapeRemainingTeam ==
    /\ pc = "fetch_remaining"
    /\ \E i \in Pending(newly_scraped_team_data) :
       \E html \in Fetches(TeamDoc(team_instances[i].url)),
          pairings \in PairingFetches(TeamDoc(team_instances[i].url)) :
         /\ newly_scraped_team_data' =
                [newly_scraped_team_data EXCEPT
                    ![i] = Some(scrape_team_page(team_instances[i], html, pairings))]
         /\ fetches' = BagAdd(fetches, <<"team", team_instances[i].url>>)
         /\ pairing_pages' =
                pairing_pages @@ PairingsOfCall(team_instances[i], html, pairings)
    /\ UNCHANGED <<pc, discoverVars, teamStageVars, divisionStageVars,
                   final_team_data_list, aggregated_teams_data, all_teams_data,
                   playerVars, agg_i, persist_log>>
    /\ UNCHANGED exceptRunVars

\* lines 400-403: the stage has drained
CollectRemainingTeams ==
    /\ pc = "fetch_remaining"
    /\ Pending(newly_scraped_team_data) = {}
    /\ IF AnyRaised(newly_scraped_team_data)
       THEN /\ pc' = "crashed"
            /\ UNCHANGED <<final_team_data_list, aggregated_teams_data, agg_i>>
       ELSE /\ final_team_data_list' =
                   DictValues(cached_team_data) \o Values(newly_scraped_team_data)
            /\ aggregated_teams_data' = <<>>
            /\ agg_i' = 0
            /\ pc' = "aggregate_teams"
    /\ UNCHANGED <<discoverVars, teamStageVars, divisionStageVars,
                   newly_scraped_team_data, all_teams_data, playerVars, fetches, pairing_pages,
                   persist_log>>
    /\ UNCHANGED exceptRunVars

-----------------------------------------------------------------------------
(* run_scraper: the aggregation of the teams *)

\* line 409: existing is extended with team_data
MergeTeam(existing, team_data) ==
    [existing EXCEPT
        !.matches = @ \o team_data.matches,
        !.players = DictUpdate(@, team_data.players),
        !.opponent_ratings_raw = @ \o team_data.opponent_ratings_raw]

\* lines 405-409: one pass of the loop over final_team_data_list
MergeTeamInto(aggregated, team_data) ==
    IF ~DictHas(aggregated, team_data.name)
    THEN DictSet(aggregated, team_data.name, team_data)
    ELSE DictSet(aggregated, team_data.name,
                 MergeTeam(DictGet(aggregated, team_data.name), team_data))

AggregateTeam ==
    /\ pc = "aggregate_teams"
    /\ agg_i < Len(final_team_data_list)
    /\ aggregated_teams_data' =
           MergeTeamInto(aggregated_teams_data, final_team_data_list[agg_i + 1])
    /\ agg_i' = agg_i + 1
    /\ UNCHANGED <<pc, discoverVars, teamStageVars, divisionStageVars,
                   newly_scraped_team_data, final_team_data_list, all_teams_data,
                   playerVars, fetches, pairing_pages, persist_log>>
    /\ UNCHANGED exceptRunVars

\* line 412: data['avg_opponent_rating'] = ...
TeamWithAverage(data) ==
    [name |-> data.name, federation |-> data.federation,
     division_url |-> data.division_url, match_points |-> data.match_points,
     board_points |-> data.board_points, players |-> data.players,
     matches |-> data.matches, opponent_ratings_raw |-> data.opponent_ratings_raw,
     avg_opponent_rating |-> Mean(data.opponent_ratings_raw)]

\* lines 410-412
RecomputeTeamAverages(aggregated) ==
    [i \in 1..Len(aggregated) |-> <<aggregated[i][1], TeamWithAverage(aggregated[i][2])>>]

\* lines 416-418: the roster of one team
RECURSIVE AddRosterPlayers(_, _)
AddRosterPlayers(to_scrape, players) ==
    IF players = <<>> THEN to_scrape
    ELSE LET player_id == players[1][1]
             player_info == players[1][2]
         IN  AddRosterPlayers(
                 IF DictHas(to_scrape, player_id) THEN to_scrape
                 ELSE DictSet(to_scrape, player_id,
                          [url |-> player_info.url,
                           domain |-> IF player_info.url.host = "knsb"
                                      THEN "KNSB" ELSE "NOSBO"]),
                 Tail(players))

\* lines 414-418
RECURSIVE UniquePlayers(_, _)
UniquePlayers(to_scrape, teams) ==
    IF teams = <<>> THEN to_scrape
    ELSE UniquePlayers(AddRosterPlayers(to_scrape, teams[1][2].players), Tail(teams))

\* lines 410-421: the loop over final_team_data_list is over
RecomputeTeams ==
    /\ pc = "aggregate_teams"
    /\ agg_i = Len(final_team_data_list)
    /\ LET teams == RecomputeTeamAverages(aggregated_teams_data)
           players == UniquePlayers(all_players_in_divisions, teams)
       IN  /\ aggregated_teams_data' = teams
           /\ all_teams_data' = teams
           /\ all_players_in_divisions' = players
           /\ unique_players_to_scrape' = players
           /\ player_data_list' = Unfilled(Len(players))
           /\ pc' = IF players # <<>> THEN "fetch_players" ELSE "persist"
    /\ agg_i' = 0
    /\ UNCHANGED <<discoverVars, teamStageVars, division_results, all_divisions_data,
                   all_teams_to_scrape, team_instances, newly_scraped_team_data,
                   final_team_data_list, aggregated_players_data, all_players_data,
                   fetches, pairing_pages, persist_log>>
    /\ UNCHANGED exceptRunVars

-----------------------------------------------------------------------------
(* run_scraper: the players *)

\* what fetch_page can give for the round links of a player page
RoundFetches(doc) ==
    IF IsNone(doc.games_table) THEN {<<>>}
    ELSE LET rows == The(doc.games_table) IN
         { f \in [1..Len(rows) -> Fetches(RoundDoc) \cup {[kind |-> "skipped"]}] :
             \A i \in 1..Len(rows) :
                 IF IsNone(rows[i].round_link) THEN f[i].kind = "skipped"
                 ELSE f[i] \in Fetches(RoundDoc) }

\* what a worker's scrape_player_page(pid, url, domain) can come to
PlayerScrapes(player_id, player_url) ==
    { scrape_player_page(player_id, html, round_htmls) :
        html \in Fetches(PlayerDoc(player_url)),
        round_htmls \in RoundFetches(PlayerDoc(player_url)) }

\* lines 421-423: one worker of executor.map(scrape_player_page, ...)
ScrapePlayer ==
    /\ pc = "fetch_players"
    /\ \E i \in Pending(player_data_list) :
       \E r \in PlayerScrapes(unique_players_to_scrape[i][1],
                              unique_players_to_scrape[i][2].url) :
         /\ player_data_list' = [player_data_list EXCEPT ![i] = Some(r)]
         /\ fetches' = BagAdd(fetches, <<"player", unique_players_to_scrape[i][2].url>>)
    /\ UNCHANGED <<pc, discoverVars, teamStageVars, divisionStageVars, teamAggVars,
                   unique_players_to_scrape, aggregated_players_data, all_players_data,
                   agg_i, pairing_pages, persist_log>>
    /\ UNCHANGED exceptRunVars

\* lines 423-425: the stage has drained
CollectPlayers ==
    /\ pc = "fetch_players"
    /\ Pending(player_data_list) = {}
    /\ IF AnyRaised(player_data_list)
       THEN /\ pc' = "crashed"
            /\ UNCHANGED <<aggregated_players_data, agg_i>>
       ELSE /\ aggregated_players_data' = <<>>
            /\ agg_i' = 0
            /\ pc' = "aggregate_players"
    /\ UNCHANGED <<discoverVars, teamStageVars, divisionStageVars, teamAggVars,
                   unique_players_to_scrape, player_data_list, all_players_data,
                   fetches, pairing_pages, persist_log>>
    /\ UNCHANGED exceptRunVars

\* lines 430-431: the observation becomes the record of its universal id
SeedPlayer(player_data) ==
    [federation_id |-> player_data.federation_id,
     universal_id |-> player_data.universal_id, name |-> player_data.name,
     games |-> player_data.games, total_score |-> player_data.total_score,
     opponent_ratings_raw |-> player_data.opponent_ratings_raw,
     avg_opponent_rating |-> player_data.avg_opponent_rating,
     federation_ids |-> <<player_data.federation_id>>]

\* line 436 with existing['federation_id'] in the place of
\* player_data['federation_id']
merge_appending_own_federation_id(existing, player_data) ==
    [existing EXCEPT
        !.total_score = @ + player_data.total_score,
        !.opponent_ratings_raw = @ \o player_data.opponent_ratings_raw,
        !.federation_ids = Append(@, existing.federation_id)]

\* the merge without line 436: the federation id of the observation is lost
merge_keeping_first_federation_id(existing, player_data) ==
    [existing EXCEPT
        !.total_score = @ + player_data.total_score,
        !.opponent_ratings_raw = @ \o player_data.opponent_ratings_raw]

\* lines 433-436
MergePlayer(existing, player_data) ==
    [existing EXCEPT
        !.total_score = @ + player_data.total_score,
        !.opponent_ratings_raw = @ \o player_data.opponent_ratings_raw,
        !.federation_ids = Append(@, player_data.federation_id)]

\* the pass without line 428: an observation without a universal id is
\* kept under the key None
merge_without_identity_check(aggregated, player_data) ==
    LET uid == IF IsNone(player_data.universal_id) THEN "None"
               ELSE The(player_data.universal_id)
    IN  IF ~DictHas(aggregated, uid)
        THEN DictSet(aggregated, uid, SeedPlayer(player_data))
        ELSE DictSet(aggregated, uid, MergePlayer(DictGet(aggregated, uid), player_data))

\* lines 427-436: one pass of the loop over player_data_list
MergePlayerInto(aggregated, player_data) ==
    LET uid == player_data.universal_id IN
    IF IsNone(uid) THEN aggregated
    ELSE IF ~DictHas(aggregated, The(uid))
    THEN DictSet(aggregated, The(uid), SeedPlayer(player_data))
    ELSE DictSet(aggregated, The(uid),
                 MergePlayer(DictGet(aggregated, The(uid)), player_data))

AggregatePlayer ==
    /\ pc = "aggregate_players"
    /\ agg_i < Len(player_data_list)
    /\ aggregated_players_data' =
           MergePlayerInto(aggregated_players_data, The(player_data_list[agg_i + 1]).value)
    /\ agg_i' = agg_i + 1
    /\ UNCHANGED <<pc, discoverVars, teamStageVars, divisionStageVars, teamAggVars,
                   unique_players_to_scrape, player_data_list, all_players_data,
                   fetches, pairing_pages, persist_log>>
    /\ UNCHANGED exceptRunVars

\* the aggregation without lines 437-439: the averages stay as scraped
averages_left_as_scraped(aggregated) == aggregated

\* lines 437-439
RecomputePlayerAverages(aggregated) ==
    [i \in 1..Len(aggregated) |->
        <<aggregated[i][1],
          [aggregated[i][2] EXCEPT
              !.avg_opponent_rating = Mean(aggregated[i][2].opponent_ratings_raw)]>>]

\* lines 437-441: the loop over player_data_list is over
RecomputePlayers ==
    /\ pc = "aggregate_players"
    /\ agg_i = Len(player_data_list)
    /\ aggregated_players_data' = RecomputePlayerAverages(aggregated_players_data)
    /\ all_players_data' = RecomputePlayerAverages(aggregated_players_data)
    /\ pc' = "persist"
    /\ UNCHANGED <<discoverVars, teamStageVars, divisionStageVars, teamAggVars,
                   unique_players_to_scrape, player_data_list, agg_i, fetches, pairing_pages,
                   persist_log>>
    /\ UNCHANGED exceptRunVars

-----------------------------------------------------------------------------
(* run_scraper: PERSIST *)

\* lines 443, 445, 447: the files, in the order they are written
JsonFiles ==
    <<"chess_team_data.json", "chess_division_data.json", "chess_player_data.json">>

\* open(..., 'w') can fail, json.dump can fail after the file was truncated
WriteOutcomes == {"written", "open_failed", "dump_failed"}

\* lines 442-449: one `with open(...)` statement of the try block; an error
\* leaves the block for the handler of line 449
WriteFile ==
    /\ pc = "persist"
    /\ \E outcome \in WriteOutcomes :
         /\ persist_log' = Append(persist_log, <<JsonFiles[Len(persist_log) + 1], outcome>>)
         /\ pc' = IF outcome = "written" /\ Len(persist_log) + 1 < Len(JsonFiles)
                  THEN "persist" ELSE "returned"
    /\ UNCHANGED <<discoverVars, teamStageVars, divisionStageVars, teamAggVars,
                   playerVars, agg_i, fetches, pairing_pages>>
    /\ UNCHANGED exceptRunVars

RunNext ==
    \/ Discover \/ ScrapeTeam \/ CollectTeams
    \/ ScrapeDivision \/ CollectDivisions
    \/ ScrapeRemainingTeam \/ CollectRemainingTeams
    \/ AggregateTeam \/ RecomputeTeams
    \/ ScrapePlayer \/ CollectPlayers
    \/ AggregatePlayer \/ RecomputePlayers
    \/ WriteFile

-----------------------------------------------------------------------------
(* The specifications *)

-----------------------------------------------------------------------------
(* The repair mode.  Its code is not among the source files; it is modelled  *)
(* from the specification: the persisted teams are loaded, those with an     *)
(* empty roster and an empty match list are failed, discovery and the team   *)
(* fetch are run again for the failed names only, the successful re-fetches  *)
(* are put back into the loaded collection, and the collection is persisted. *)

RepairTeamNames == {<<"SISSA", "1">>, <<"sissa", "2">>, <<"OPP", "1">>}

\* the records a persisted team can have: nothing scraped, a roster alone,
\* a roster and a match
PersistedRecords(name) ==
    LET empty == TeamWithAverage(TeamDataDefault([name |-> name, domain |-> "KNSB"]))
        roster == << <<"60", [name |-> "Eve", url |-> Url("knsb", Href("players", "60"))]>> >>
        match == [date |-> 9, opponent |-> <<"OTHER", "1">>, location |-> "Home",
                  result |-> "5-3"]
    IN  { empty,
          [empty EXCEPT !.players = roster],
          TeamWithAverage([empty EXCEPT !.players = roster, !.matches = <<match>>,
                                        !.opponent_ratings_raw = <<1900>>]) }

\* a team counted as failed for its empty match list alone
failed_by_matches_alone(team) == team.matches = <<>>

IsFailed(team) == team.players = <<>> /\ team.matches = <<>>

FailedNames(teams) ==
    {teams[k][1] : k \in {k \in 1..Len(teams) : IsFailed(teams[k][2])}}

\* discovery for the failed names only
RECURSIVE ScopedTo(_, _)
ScopedTo(found_teams, names) ==
    IF found_teams = <<>> THEN <<>>
    ELSE (IF Head(found_teams).name \in names THEN <<Head(found_teams)>> ELSE <<>>)
         \o ScopedTo(Tail(found_teams), names)

IsSuccessful(team_data) == team_data.players # <<>> \/ team_data.matches # <<>>

\* the successful re-fetches are put back under their names
RECURSIVE PutBack(_, _)
PutBack(teams, team_data_list) ==
    IF team_data_list = <<>> THEN teams
    ELSE PutBack(IF IsSuccessful(Head(team_data_list))
                 THEN DictSet(teams, Head(team_data_list).name,
                              TeamWithAverage(Head(team_data_list)))
                 ELSE teams,
                 Tail(team_data_list))

RepairIdle ==
    /\ rp_pc = "idle" /\ rp_loaded = <<>> /\ rp_failed = {} /\ rp_instances = <<>>
    /\ rp_results = <<>> /\ rp_teams = <<>> /\ rp_written = None

RepairStart ==
    /\ rp_pc = "load"
    /\ \E a \in PersistedRecords(<<"SISSA", "1">>), b \in PersistedRecords(<<"sissa", "2">>),
          c \in PersistedRecords(<<"OPP", "1">>) :
         rp_loaded = << <<a.name, a>>, <<b.name, b>>, <<c.name, c>> >>
    /\ rp_failed = {} /\ rp_instances = <<>> /\ rp_results = <<>>
    /\ rp_teams = <<>> /\ rp_written = None

RepairIdentify ==
    /\ rp_pc = "load"
    /\ rp_failed' = FailedNames(rp_loaded)
    /\ rp_teams' = rp_loaded
    /\ rp_pc' = "discover"
    /\ UNCHANGED <<rp_loaded, rp_instances, rp_results, rp_written>>
    /\ UNCHANGED exceptRpVars

RepairDiscover ==
    /\ rp_pc = "discover"
    /\ \E first \in {NoContent} \cup {Content(d) : d \in IndexDocs(Domains[1])},
          second \in {NoContent} \cup {Content(d) : d \in IndexDocs(Domains[2])} :
         LET found == ScopedTo(
                 scrape_competition_pages(CLUB_TEAM_PREFIX, <<first, second>>, 1),
                 rp_failed)
         IN  /\ rp_instances' = found
             /\ rp_results' = Unfilled(Len(found))
    /\ rp_pc' = "fetch"
    /\ UNCHANGED <<rp_loaded, rp_failed, rp_teams, rp_written>>
    /\ UNCHANGED exceptRpVars

RepairFetch ==
    /\ rp_pc = "fetch"
    /\ \E i \in Pending(rp_results) :
       \E r \in {t \in TeamScrapes(rp_instances[i]) : ~t.raised} :
         rp_results' = [rp_results EXCEPT ![i] = Some(r)]
    /\ UNCHANGED <<rp_pc, rp_loaded, rp_failed, rp_instances, rp_teams, rp_written>>
    /\ UNCHANGED exceptRpVars

RepairMerge ==
    /\ rp_pc = "fetch"
    /\ Pending(rp_results) = {}
    /\ rp_teams' = PutBack(rp_teams, Values(rp_results))
    /\ rp_pc' = "persist"
    /\ UNCHANGED <<rp_loaded, rp_failed, rp_instances, rp_results, rp_written>>
    /\ UNCHANGED exceptRpVars

RepairPersist ==
    /\ rp_pc = "persist"
    /\ rp_written' = Some(rp_teams)
    /\ rp_pc' = "done"
    /\ UNCHANGED <<rp_loaded, rp_failed, rp_instances, rp_results, rp_teams>>
    /\ UNCHANGED exceptRpVars

RepairNext ==
    RepairIdentify \/ RepairDiscover \/ RepairFetch \/ RepairMerge \/ RepairPersist

-----------------------------------------------------------------------------
-----------------------------------------------------------------------------
(* The worker pools of run_scraper.  A call of scrape_team_page,             *)
(* scrape_division_page or scrape_player_page runs on one worker thread from *)
(* its first line to its return, and every fetch_page, scrape_round_date and *)
(* fetch_historical_ratings in it is a plain call that the worker waits for. *)
(* The workers are counted, not told apart.                                  *)

\* max_workers=15 (lines 375, 386, 399, 422)
MAX_WORKERS == 15

\* the most calls a stage maps
MaxTasks == 17

\* the stages that open a pool, in the order of run_scraper
PoolStages == <<"teams", "divisions", "remaining", "players">>

\* the competition pages of scrape_competition_pages (lines 165-168)
CompetitionPages == Len(Domains)

\* the calls of the stage fetch more pages after their first one: the pairing
\* pages (line 240), the round pages and the rating history (lines 308, 39)
HasNestedFetches(stage) == PoolStages[stage] # "divisions"

\* a thread for every call submitted, whatever the number of threads
thread_for_every_call(threads, busy) == threads + 1

\* ThreadPoolExecutor.submit: a thread is started when no worker is idle and
\* the pool has fewer than max_workers threads
AdjustThreadCount(threads, busy) ==
    IF busy = threads /\ threads < MAX_WORKERS THEN threads + 1 ELSE threads

PoolIdle ==
    /\ pl_pc = "idle" /\ pl_stage = 0 /\ pl_pages = 0 /\ pl_main = 0
    /\ pl_submit = 0 /\ pl_queue = 0 /\ pl_threads = 0
    /\ pl_fetching = 0 /\ pl_between = 0

PoolStart ==
    /\ pl_pc = "discover" /\ pl_stage = 0 /\ pl_pages = 0 /\ pl_main = 0
    /\ pl_submit = 0 /\ pl_queue = 0 /\ pl_threads = 0
    /\ pl_fetching = 0 /\ pl_between = 0

\* line 168: the main thread enters fetch_page for a competition page
DiscoverFetch ==
    /\ pl_pc = "discover" /\ pl_main = 0 /\ pl_pages < CompetitionPages
    /\ pl_main' = 1
    /\ UNCHANGED <<pl_pc, pl_stage, pl_pages, pl_submit, pl_queue, pl_threads,
                   pl_fetching, pl_between>>
    /\ UNCHANGED exceptPlVars

\* fetch_page returns to scrape_competition_pages
DiscoverFetched ==
    /\ pl_pc = "discover" /\ pl_main = 1
    /\ pl_main' = 0
    /\ pl_pages' = pl_pages + 1
    /\ UNCHANGED <<pl_pc, pl_stage, pl_submit, pl_queue, pl_threads, pl_fetching,
                   pl_between>>
    /\ UNCHANGED exceptPlVars

\* lines 375, 386, 399, 422: `with ThreadPoolExecutor(max_workers=15)` of the
\* next stage, and the calls its executor.map is to submit
OpenPool ==
    /\ \/ pl_pc = "discover" /\ pl_pages = CompetitionPages /\ pl_main = 0
       \/ pl_pc = "joined" /\ pl_stage < Len(PoolStages)
    /\ \E n \in {1, MaxTasks - 1, MaxTasks} : pl_submit' = n
    /\ pl_stage' = pl_stage + 1
    /\ pl_pc' = "map"
    /\ UNCHANGED <<pl_pages, pl_main, pl_queue, pl_threads, pl_fetching, pl_between>>
    /\ UNCHANGED exceptPlVars

\* executor.map submits the calls one by one while the workers run
Submit ==
    /\ pl_pc = "map" /\ pl_submit > 0
    /\ pl_submit' = pl_submit - 1
    /\ pl_queue' = pl_queue + 1
    /\ pl_threads' = AdjustThreadCount(pl_threads, pl_fetching + pl_between)
    /\ UNCHANGED <<pl_pc, pl_stage, pl_pages, pl_main, pl_fetching, pl_between>>
    /\ UNCHANGED exceptPlVars

\* an idle worker takes a call from the queue; the call starts with
\* fetch_page (lines 188, 254, 289)
TakeCall ==
    /\ pl_pc = "map" /\ pl_queue > 0
    /\ pl_fetching + pl_between < pl_threads
    /\ pl_queue' = pl_queue - 1
    /\ pl_fetching' = pl_fetching + 1
    /\ UNCHANGED <<pl_pc, pl_stage, pl_pages, pl_main, pl_submit, pl_threads,
                   pl_between>>
    /\ UNCHANGED exceptPlVars

\* a fetch returns to the call that made it
WorkerFetched ==
    /\ pl_pc = "map" /\ pl_fetching > 0
    /\ pl_fetching' = pl_fetching - 1
    /\ pl_between' = pl_between + 1
    /\ UNCHANGED <<pl_pc, pl_stage, pl_pages, pl_main, pl_submit, pl_queue,
                   pl_threads>>
    /\ UNCHANGED exceptPlVars

\* lines 240, 39, 308: the call fetches a pairing page, a round page or the
\* rating history, and waits for it
WorkerFetchesNested ==
    /\ pl_pc = "map" /\ pl_between > 0
    /\ HasNestedFetches(pl_stage)
    /\ pl_between' = pl_between - 1
    /\ pl_fetching' = pl_fetching + 1
    /\ UNCHANGED <<pl_pc, pl_stage, pl_pages, pl_main, pl_submit, pl_queue,
                   pl_threads>>
    /\ UNCHANGED exceptPlVars

\* the call returns or raises: its worker is idle again
CallOver ==
    /\ pl_pc = "map" /\ pl_between > 0
    /\ pl_between' = pl_between - 1
    /\ UNCHANGED <<pl_pc, pl_stage, pl_pages, pl_main, pl_submit, pl_queue,
                   pl_threads, pl_fetching>>
    /\ UNCHANGED exceptPlVars

\* the end of the `with` block: shutdown(wait=True) has joined the workers
ClosePool ==
    /\ pl_pc = "map"
    /\ pl_submit = 0 /\ pl_queue = 0 /\ pl_fetching = 0 /\ pl_between = 0
    /\ pl_threads' = 0
    /\ pl_pc' = "joined"
    /\ UNCHANGED <<pl_stage, pl_pages, pl_main, pl_submit, pl_queue, pl_fetching,
                   pl_between>>
    /\ UNCHANGED exceptPlVars

PoolNext ==
    \/ DiscoverFetch \/ DiscoverFetched \/ OpenPool \/ Submit \/ TakeCall
    \/ WorkerFetched \/ WorkerFetchesNested \/ CallOver \/ ClosePool

PoolInit ==
    PoolStart /\ FetchIdle /\ TeamIdle /\ LoadIdle /\ RunIdle /\ HistIdle /\ RepairIdle

SpecPool == PoolInit /\ [][PoolNext]_vars

FetchNext == FetchAttempt \/ FetchExhausted

FetchInit ==
    FetchStart /\ TeamIdle /\ LoadIdle /\ RunIdle /\ HistIdle /\ RepairIdle /\ PoolIdle

SpecFetch == FetchInit /\ [][FetchNext]_vars

TeamInit ==
    TeamStart /\ FetchIdle /\ LoadIdle /\ RunIdle /\ HistIdle /\ RepairIdle /\ PoolIdle

SpecTeam == TeamInit /\ [][TeamNext]_vars

LoadInit ==
    LoadStart /\ FetchIdle /\ TeamIdle /\ RunIdle /\ HistIdle /\ RepairIdle /\ PoolIdle

HistInit ==
    HistStart /\ FetchIdle /\ TeamIdle /\ LoadIdle /\ RunIdle /\ RepairIdle /\ PoolIdle

SpecHist == HistInit /\ [][HistNext]_vars

RepairInit ==
    RepairStart /\ FetchIdle /\ TeamIdle /\ LoadIdle /\ RunIdle /\ HistIdle /\ PoolIdle

SpecRepair == RepairInit /\ [][RepairNext]_vars

Init ==
    RunStart /\ FetchIdle /\ TeamIdle /\ LoadIdle /\ HistIdle /\ RepairIdle /\ PoolIdle

Next == RunNext

Spec == Init /\ [][Next]_vars

SpecLoad == LoadInit /\ [][LoadNext]_vars

-----------------------------------------------------------------------------
(* Ghost pairings (scrape_team_page) *)

\* the pairing page lists participants, and each of them is the placeholder NN
IsGhostPairing(html) ==
    /\ html.kind = "content"
    /\ html.doc.table /\ html.doc.tbody
    /\ html.doc.player_links # <<>>
    /\ \A n \in Range(html.doc.player_links) : n = "NN"

\* the pairing page names real participants and shows, under the opponent's
\* header, a positive average rating
IsRatedPairing(html, opponent) ==
    /\ html.kind = "content"
    /\ html.doc.table /\ html.doc.tbody /\ html.doc.thead /\ html.doc.tfoot
    /\ \E n \in Range(html.doc.player_links) : n # "NN"
    /\ \E k \in 1..Len(html.doc.header_links) :
         /\ html.doc.header_links[k] = opponent
         /\ \A j \in 1..(k - 1) : html.doc.header_links[j] # opponent
         /\ k <= Len(html.doc.footer)
         /\ ~IsNone(html.doc.footer[k])
         /\ ~IsNone(ParseInt(The(html.doc.footer[k])))
         /\ The(ParseInt(The(html.doc.footer[k]))) > 0

OpponentOf(row, team_name) == IF row.home = team_name THEN row.away ELSE row.home

\* C5: a fixture whose pairing page lists only the placeholder NN adds no Match
\* and no rating to the team, and does not end the extraction: the division
\* link, the points and the roster stay as extracted, and every other fixture
\* with a rated pairing page is kept as a Match with its rating.
C5_GhostFixtureContributesNothing ==
    /\ (tm_pc = "raised" /\ tm_idx > 0) => ~IsGhostPairing(tm_pairings[tm_idx])
    /\ tm_pc \in {"fixtures", "done"} /\ The(tm_html).kind = "content" =>
         LET data == The(tm_data)
             inst == The(tm_inst)
             head == TeamHeader(inst, The(tm_html).doc, TeamDataDefault(inst)).value
             kept == {j \in 1..tm_idx : HasPairingLink(TeamRows[j])
                                         /\ ~IsGhostPairing(tm_pairings[j])}
         IN  /\ \A j \in 1..tm_idx : IsGhostPairing(tm_pairings[j]) =>
                    \A m \in Range(data.matches) : m.date # TeamRows[j].date
             /\ Len(data.matches) = Len(data.opponent_ratings_raw)
             /\ Len(data.matches) <= Cardinality(kept)
             /\ \A j \in kept :
                    IsRatedPairing(tm_pairings[j], OpponentOf(TeamRows[j], inst.name)) =>
                        \E m \in Range(data.matches) : m.date = TeamRows[j].date
             /\ data.players = head.players
             /\ data.division_url = head.division_url
             /\ data.match_points = head.match_points
             /\ data.board_points = head.board_points

\* a team page with a ghost fixture and a rated one has been extracted: one
\* Match, and the roster and the points are there
C5_Witness ==
    /\ tm_pc = "done"
    /\ tm_idx = 2
    /\ \E j \in 1..tm_idx : IsGhostPairing(tm_pairings[j])
    /\ Len(The(tm_data).matches) = 1
    /\ Len(The(tm_data).players) = 2
    /\ The(tm_data).board_points = <<49, 2>>

-----------------------------------------------------------------------------
(* fetch_page: exhaustion *)

\* C6: fetch_page never raises, and when every attempt failed it has made
\* exactly `retries` attempts and returns None.
C6_ExhaustedFetchReturnsNone ==
    /\ fp_pc # "raised"
    /\ (fp_pc = "returned" /\ "content" \notin Range(fp_log)) =>
           fp_ret = "None" /\ Len(fp_log) = fp_retries

-----------------------------------------------------------------------------
(* load_data: the teams a player played for *)

\* the names of the teams whose roster holds one of the federation ids
TeamsOfIds(team_rows, federation_ids) ==
    { t.name : t \in { r \in Range(team_rows) :
                         \E f \in Range(federation_ids) : DictHas(r.players, f) } }

\* C4: teams_played_for holds exactly the names of the teams whose roster
\* holds one of the player's federation ids, and is "Unknown" alone exactly
\* when there is no such team.
C4_TeamsPlayedForIsEveryRosterTeam ==
    (ld_pc = "loaded" /\ ~The(ld_result).error /\ The(ld_result).team_df # <<>>) =>
        \A p \in Range(The(ld_result).player_df) :
            LET teams == TeamsOfIds(The(ld_result).team_df, p.federation_ids) IN
            The(p.teams_played_for) = IF teams = {} THEN {"Unknown"} ELSE teams

-----------------------------------------------------------------------------
(* run_scraper: the teams of one name *)

\* the indexes of the discovered TeamInstances of one name
InstancesNamed(name) ==
    {i \in 1..Len(sissa_teams_to_find) : sissa_teams_to_find[i].name = name}

\* C1: when discovery gave two distinct TeamInstances of one name and the
\* team pages of both were read, the Team published under that name holds
\* the matches of both, one after the other, the roster keys of both, and
\* the opponent ratings of both, one after the other.
C1_SameNameInstancesAreMerged ==
    \A i, j \in 1..Len(sissa_teams_to_find) :
        (/\ i < j
         /\ sissa_teams_to_find[i].name = sissa_teams_to_find[j].name
         /\ sissa_teams_to_find[i].url # sissa_teams_to_find[j].url
         /\ InstancesNamed(sissa_teams_to_find[i].name) = {i, j}
         /\ DictHas(all_teams_data, sissa_teams_to_find[i].name)
         /\ ~IsNone(The(sissa_team_data_list[i]).value.division_url)
         /\ ~IsNone(The(sissa_team_data_list[j]).value.division_url)) =>
            LET first == The(sissa_team_data_list[i]).value
                second == The(sissa_team_data_list[j]).value
                team == DictGet(all_teams_data, sissa_teams_to_find[i].name)
            IN  /\ team.matches = first.matches \o second.matches
                /\ Range(DictKeys(team.players)) =
                       Range(DictKeys(first.players)) \cup Range(DictKeys(second.players))
                /\ team.opponent_ratings_raw =
                       first.opponent_ratings_raw \o second.opponent_ratings_raw

-----------------------------------------------------------------------------
(* run_scraper: the observations of one player *)

\* the states in which agg_i counts the observations the loop of lines
\* 426-436 has been through
PlayerAggregationStates == {"aggregate_players", "persist", "returned"}

Observations == [k \in 1..agg_i |-> The(player_data_list[k]).value]

ObservationsOf(uid) ==
    SelectSeq(Observations, LAMBDA o : o.universal_id = Some(uid))

RECURSIVE ConcatRatings(_)
ConcatRatings(obs) ==
    IF obs = <<>> THEN <<>>
    ELSE Head(obs).opponent_ratings_raw \o ConcatRatings(Tail(obs))

RECURSIVE SumScores(_)
SumScores(obs) ==
    IF obs = <<>> THEN 0 ELSE Head(obs).total_score + SumScores(Tail(obs))

\* C2: the record of a universal id is the first observation of that id,
\* with the federation ids of all its observations in observation order, the
\* sum of their scores and their opponent ratings one after the other; once
\* the averages are recomputed the average is the mean of all those ratings.
C2_PlayerRecordAccumulatesObservations ==
    pc \in PlayerAggregationStates =>
        \A k \in 1..Len(aggregated_players_data) :
            LET rec == aggregated_players_data[k][2]
                obs == ObservationsOf(aggregated_players_data[k][1])
            IN  /\ obs # <<>>
                /\ rec.federation_id = obs[1].federation_id
                /\ rec.name = obs[1].name
                /\ rec.games = obs[1].games
                /\ rec.federation_ids = [n \in 1..Len(obs) |-> obs[n].federation_id]
                /\ rec.total_score = SumScores(obs)
                /\ rec.opponent_ratings_raw = ConcatRatings(obs)
                /\ pc # "aggregate_players" =>
                       rec.avg_opponent_rating = Mean(ConcatRatings(obs))

\* Alice, seen as "55" with the ratings 1500 and 1600 and as "77" with 1700,
\* is one player "900" with the average 1600
C2_Witness ==
    /\ pc = "persist"
    /\ DictHas(all_players_data, "900")
    /\ DictGet(all_players_data, "900").federation_ids = <<"55", "77">>
    /\ DictGet(all_players_data, "900").opponent_ratings_raw = <<1500, 1600, 1700>>
    /\ DictGet(all_players_data, "900").total_score = 5
    /\ DictGet(all_players_data, "900").avg_opponent_rating = <<1600, 1>>

-----------------------------------------------------------------------------
(* run_scraper: the averages *)

HasMeanAverage(rec) ==
    /\ "avg_opponent_rating" \in DOMAIN rec
    /\ rec.avg_opponent_rating = Mean(rec.opponent_ratings_raw)

\* a pass of the loop of lines 404-409 that extends a record that is there
TeamMergeStep ==
    /\ pc = "aggregate_teams"
    /\ agg_i < Len(final_team_data_list)
    /\ agg_i' = agg_i + 1
    /\ DictHas(aggregated_teams_data, final_team_data_list[agg_i + 1].name)

\* a pass of the loop of lines 426-436 that extends a record that is there
PlayerMergeStep ==
    /\ pc = "aggregate_players"
    /\ agg_i < Len(player_data_list)
    /\ agg_i' = agg_i + 1
    /\ LET uid == The(player_data_list[agg_i + 1]).value.universal_id IN
       IF IsNone(uid) THEN FALSE ELSE DictHas(aggregated_players_data, The(uid))

\* C3 as stated: after every step that merges a further instance or
\* observation into a record, every record of the aggregation maps has the
\* mean of its opponent ratings as its average, 0 for no rating.
C3_AverageIsMeanAfterEveryMergeStep ==
    [][/\ TeamMergeStep =>
              \A k \in 1..Len(aggregated_teams_data') :
                  HasMeanAverage(aggregated_teams_data'[k][2])
       /\ PlayerMergeStep =>
              \A k \in 1..Len(aggregated_players_data') :
                  HasMeanAverage(aggregated_players_data'[k][2])]_vars

\* C3, amended: once the loop that follows the merge loop has run (lines
\* 410-412 for the teams, 437-439 for the players), every record of the
\* aggregation maps and of the published collections has the mean of its
\* opponent ratings as its average, 0 for no rating.
C3_AverageIsMeanOnceRecomputed ==
    /\ pc # "aggregate_teams" =>
           \A k \in 1..Len(aggregated_teams_data) :
               HasMeanAverage(aggregated_teams_data[k][2])
    /\ pc # "aggregate_players" =>
           \A k \in 1..Len(aggregated_players_data) :
               HasMeanAverage(aggregated_players_data[k][2])
    /\ \A k \in 1..Len(all_teams_data) : HasMeanAverage(all_teams_data[k][2])
    /\ \A k \in 1..Len(all_players_data) : HasMeanAverage(all_players_data[k][2])

\* two instances of a team and two observations of a player were merged, and
\* one team has no rating at all
C3_Witness ==
    /\ pc = "persist"
    /\ \E k \in 1..Len(all_teams_data) :
           Len(all_teams_data[k][2].opponent_ratings_raw) = 2
    /\ \E k \in 1..Len(all_teams_data) :
           /\ all_teams_data[k][2].opponent_ratings_raw = <<>>
           /\ all_teams_data[k][2].avg_opponent_rating = <<0, 1>>
    /\ \E k \in 1..Len(all_players_data) :
           /\ Len(all_players_data[k][2].federation_ids) = 2
           /\ all_players_data[k][2].avg_opponent_rating
                  # The(player_data_list[1]).value.avg_opponent_rating

-----------------------------------------------------------------------------
(* run_scraper: failing fetches and PERSIST *)

\* C7: a run in which discovery found a team and that has returned has been
\* through PERSIST, whatever the later fetches gave.
C7_RunWithTeamsReachesPersist ==
    (pc = "returned" /\ sissa_teams_to_find # <<>>) => persist_log # <<>>

Written(file) == <<file, "written">> \in Range(persist_log)

\* C8: when the writing of one of the three files failed, the two other
\* files have been written in that run.
C8_FailedWriteLeavesOtherFilesWritten ==
    pc = "returned" =>
        \A k \in 1..Len(persist_log) :
            persist_log[k][2] # "written" =>
                \A file \in Range(JsonFiles) \ {persist_log[k][1]} : Written(file)

\* the text of a link names a team of the club: the prefix in any case, and
\* a numeral
NamesClubTeam(text) ==
    /\ Len(text) >= 2
    /\ text[1] \in {"SISSA", "sissa"}
    /\ text[2] \in {"1", "2", "3", "I", "II", "III", "IV"}

\* discovery is over and no competition page it got lists a team of the club
NoClubTeamListed ==
    /\ pc # "discover"
    /\ \A i \in 1..Len(comp_pages) :
           comp_pages[i].kind = "content" =>
               \A k \in 1..Len(comp_pages[i].doc.links) :
                   ~NamesClubTeam(comp_pages[i].doc.links[k].text)

\* C9: when no competition page lists a team of the club, the run is over
\* after discovery: no team, division or player page is ever fetched, and no
\* file is written.
C9_NoTeamFoundEndsTheRun ==
    NoClubTeamListed =>
        /\ pc \in {"returned", "crashed"}
        /\ \A key \in DOMAIN fetches : key[1] = "index"
        /\ persist_log = <<>>
        /\ all_teams_data = <<>> /\ all_divisions_data = <<>> /\ all_players_data = <<>>

\* both competition pages were read, and they list other teams only
C9_Witness ==
    /\ pc = "returned"
    /\ Len(comp_pages) = 2
    /\ \A i \in 1..2 : comp_pages[i].kind = "content"
    /\ \E k \in 1..Len(comp_pages[1].doc.links) :
           comp_pages[1].doc.links[k].text = <<"OPP", "1">>
    /\ NoClubTeamListed
    /\ Cardinality(DOMAIN fetches) = 2

\* C10: an observation without a universal id is no record of the aggregated
\* map and is in no record's federation ids, score or ratings; an observation
\* with a universal id is in the record of that id and in no other.
C10_ObservationWithoutUniversalIdIsDropped ==
    pc \in PlayerAggregationStates =>
        /\ \A n \in 1..Len(Observations) :
               LET o == Observations[n] IN
               \A k \in 1..Len(aggregated_players_data) :
                   LET uid == aggregated_players_data[k][1]
                       rec == aggregated_players_data[k][2]
                   IN  IF IsNone(o.universal_id)
                       THEN /\ rec.federation_id # o.federation_id
                            /\ o.federation_id \notin Range(rec.federation_ids)
                       ELSE (o.federation_id \in Range(rec.federation_ids))
                                <=> (uid = The(o.universal_id))
        /\ \A n \in 1..Len(Observations) :
               ~IsNone(Observations[n].universal_id) =>
                   DictHas(aggregated_players_data, The(Observations[n].universal_id))
        /\ \A k \in 1..Len(aggregated_players_data) :
               LET rec == aggregated_players_data[k][2]
                   obs == ObservationsOf(aggregated_players_data[k][1])
               IN  /\ Len(rec.federation_ids) = Len(obs)
                   /\ rec.total_score = SumScores(obs)
                   /\ rec.opponent_ratings_raw = ConcatRatings(obs)

\* Bob, whose page has no universal id and one rated game, was scraped with
\* players that have one
C10_Witness ==
    /\ pc = "persist"
    /\ \E n \in 1..Len(Observations) :
           /\ IsNone(Observations[n].universal_id)
           /\ Observations[n].opponent_ratings_raw # <<>>
           /\ Observations[n].name = "Bob"
    /\ Len(all_players_data) = 2

-----------------------------------------------------------------------------
(* fetch_historical_ratings: the months of the trailing year *)

\* an entry with a moment that is a date and with a rating
IsDated(entry) ==
    /\ entry.is_dict /\ ~IsNone(entry.moment) /\ ~IsNone(entry.rating)
    /\ ~IsNone(ParseDate(UpTo(The(entry.moment), "T")))

DateOf(entry) == The(ParseDate(UpTo(The(entry.moment), "T")))

\* the date is one of the 365 days up to now
InTrailingYear(date, now) ==
    /\ Ordinal(date) <= now[1]
    /\ Ordinal(date) > now[1] - 365 \/ (Ordinal(date) = now[1] - 365 /\ now[2] = 0)

MonthIndex(date) == 12 * date.year + date.month

\* the month a key YYYY-MM names; -1 for a key of another form
KeyMonth(key) ==
    IF Len(key) = 7 /\ key[5] = "-" /\ AllDigits(SubSeq(key, 1, 4))
       /\ AllDigits(SubSeq(key, 6, 7))
    THEN 12 * DigitsValue(SubSeq(key, 1, 4)) + DigitsValue(SubSeq(key, 6, 7))
    ELSE -1

\* the entries of the list that count: dated in the trailing year
Counted ==
    {n \in 1..Len(hr_response.rating_list) :
        /\ IsDated(hr_response.rating_list[n])
        /\ InTrailingYear(DateOf(hr_response.rating_list[n]), hr_now)}

\* C11: the result has one key YYYY-MM per calendar month with an entry dated
\* in the trailing 365 days, the value of a month is the rating of the first
\* such entry of the month in list order, entries dated outside contribute
\* nothing, and the keys come in ascending order of the months.
C11_FirstRatingPerMonthOfTrailingYear ==
    (hr_pc = "returned" /\ hr_response.kind = "list") =>
        LET rating_list == hr_response.rating_list
            month(n) == MonthIndex(DateOf(rating_list[n]))
        IN  /\ Len(hr_ret) = Cardinality({month(n) : n \in Counted})
            /\ \A k \in 1..Len(hr_ret) :
                   \E n \in Counted :
                       /\ month(n) = KeyMonth(hr_ret[k][1])
                       /\ \A e \in Counted : month(e) = month(n) => n <= e
                       /\ hr_ret[k][2] = The(rating_list[n].rating)
            /\ \A n \in Counted : \E k \in 1..Len(hr_ret) : KeyMonth(hr_ret[k][1]) = month(n)
            /\ \A k \in 1..(Len(hr_ret) - 1) :
                   KeyMonth(hr_ret[k][1]) < KeyMonth(hr_ret[k + 1][1])

\* October 2026 twice, then February 2026: two keys, February first, and
\* October with the rating of its first entry
C11_Witness ==
    /\ hr_pc = "returned" /\ hr_response.kind = "list"
    /\ Len(hr_response.rating_list) = 3
    /\ Counted = {1, 2, 3}
    /\ Len(hr_ret) = 2
    /\ hr_ret[1] = <<<<"2", "0", "2", "6", "-", "0", "2">>, 1750>>
    /\ hr_ret[2][2] = 1780
    /\ hr_data[1][2] = 1780

-----------------------------------------------------------------------------
(* _scrape_opponent_rating_from_pairings: pages of another structure *)

\* the pairing document is not of the expected structure for this opponent
Deviates(doc, opponent) ==
    \/ ~doc.table \/ ~doc.tbody \/ ~doc.thead \/ ~doc.tfoot
    \/ opponent \notin Range(doc.header_links)
    \/ LET k == CHOOSE k \in 1..Len(doc.header_links) :
                    /\ doc.header_links[k] = opponent
                    /\ \A j \in 1..(k - 1) : doc.header_links[j] # opponent
       IN  IF k > Len(doc.footer) THEN TRUE
           ELSE IF IsNone(doc.footer[k]) THEN TRUE
           ELSE IsNone(ParseInt(The(doc.footer[k])))

\* C12: for every pairing page that was read for a fixture, the extractor
\* does not raise, and it gives None when the document deviates from the
\* expected structure.
C12_DeviatingPairingPageGivesNone ==
    tm_pc \in {"fixtures", "done", "raised"} =>
        \A j \in 1..tm_idx :
            (HasPairingLink(TeamRows[j]) /\ tm_pairings[j].kind = "content") =>
                LET opponent == OpponentOf(TeamRows[j], The(tm_inst).name)
                    rating == scrape_opponent_rating_from_pairings(tm_pairings[j], opponent)
                IN  /\ ~rating.raised
                    /\ Deviates(tm_pairings[j].doc, opponent) => rating.value = None

-----------------------------------------------------------------------------
(* repair mode: what is fetched again and what is written again *)

\* the re-fetches of one name that brought a roster or a match
GoodRefetches(name) ==
    { The(rp_results[i]).value :
        i \in {i \in 1..Len(rp_results) :
                 /\ rp_instances[i].name = name
                 /\ \/ The(rp_results[i]).value.players # <<>>
                    \/ The(rp_results[i]).value.matches # <<>>} }

\* C13: only teams whose persisted record has an empty roster and an empty
\* match list are fetched again; in the collection written again the record
\* of such a team is its successful re-fetch, if there is one, and every
\* other record is the persisted one.
C13_RepairRefetchesOnlyEmptyTeams ==
    /\ \A i \in 1..Len(rp_instances) :
           LET persisted == DictGet(rp_loaded, rp_instances[i].name) IN
           persisted.players = <<>> /\ persisted.matches = <<>>
    /\ rp_pc = "done" =>
           /\ DictKeys(The(rp_written)) = DictKeys(rp_loaded)
           /\ \A k \in 1..Len(rp_loaded) :
                  LET persisted == rp_loaded[k][2]
                      written == The(rp_written)[k][2]
                      good == GoodRefetches(rp_loaded[k][1])
                  IN  IF persisted.players # <<>> \/ persisted.matches # <<>> \/ good = {}
                      THEN written = persisted
                      ELSE \E g \in good :
                             /\ written.players = g.players
                             /\ written.matches = g.matches
                             /\ written.opponent_ratings_raw = g.opponent_ratings_raw
                             /\ written.division_url = g.division_url

\* SISSA 1 was empty and is repaired, sissa 2 had a roster alone and is as
\* it was, OPP 1 was empty and stays empty
C13_Witness ==
    /\ rp_pc = "done"
    /\ Len(rp_instances) = 2
    /\ DictGet(rp_loaded, <<"SISSA", "1">>).players = <<>>
    /\ DictGet(The(rp_written), <<"SISSA", "1">>).players # <<>>
    /\ DictGet(rp_loaded, <<"sissa", "2">>).players # <<>>
    /\ DictGet(rp_loaded, <<"sissa", "2">>).matches = <<>>
    /\ DictGet(rp_loaded, <<"OPP", "1">>).players = <<>>
    /\ DictGet(The(rp_written), <<"OPP", "1">>) = DictGet(rp_loaded, <<"OPP", "1">>)

-----------------------------------------------------------------------------
(* run_scraper: the stages *)

\* a call of the stage has returned; every call of the stage has returned
HasStarted(results) == \E i \in 1..Len(results) : results[i] # None
HasDrained(results) == \A i \in 1..Len(results) : results[i] # None

FetchedKind(kind) == \E key \in DOMAIN fetches : key[1] = kind

\* C14: a stage's fetches can start, or have started, only when discovery and
\* every fetch of the stages before it have completed, in the order
\* DISCOVER, FETCH_TEAMS, FETCH_DIVISIONS, FETCH_REMAINING_TEAMS,
\* FETCH_PLAYERS; a file is written only when every player fetch has
\* completed.
C14_StagesDrainInOrder ==
    /\ (pc = "fetch_teams" \/ HasStarted(sissa_team_data_list) \/ FetchedKind("team")) =>
           Len(comp_pages) = Len(Domains)
    /\ (pc = "fetch_divisions" \/ HasStarted(division_results) \/ FetchedKind("division")) =>
           /\ sissa_team_data_list # <<>>
           /\ HasDrained(sissa_team_data_list)
    /\ (pc = "fetch_remaining" \/ HasStarted(newly_scraped_team_data)) =>
           /\ division_results # <<>>
           /\ HasDrained(division_results)
           /\ HasDrained(sissa_team_data_list)
    /\ (pc = "fetch_players" \/ HasStarted(player_data_list) \/ FetchedKind("player")) =>
           /\ HasDrained(newly_scraped_team_data)
           /\ HasDrained(division_results)
           /\ HasDrained(sissa_team_data_list)
    /\ (pc = "persist" \/ persist_log # <<>>) =>
           /\ HasDrained(player_data_list)
           /\ HasDrained(newly_scraped_team_data)
           /\ HasDrained(division_results)
           /\ HasDrained(sissa_team_data_list)

\* a run through all the stages, each with more than one fetch, writes
C14_Witness ==
    /\ persist_log # <<>>
    /\ Len(sissa_team_data_list) = 2
    /\ Len(division_results) = 2
    /\ Len(newly_scraped_team_data) = 2
    /\ Len(player_data_list) >= 3

-----------------------------------------------------------------------------
(* run_scraper: the teams of the divisions *)

\* a team is its federation and its local id
TeamOf(team_instance) == <<team_instance.domain, team_instance.url.id>>

\* the teams the divisions scraped with their name list
ReferencedTeams ==
    UNION { { <<The(division_results[i]).value.federation,
                The(division_results[i]).value.teams[k][1]>> :
                  k \in 1..Len(The(division_results[i]).value.teams) } :
            i \in {i \in 1..Len(division_results) :
                     The(division_results[i]).value.name # <<>>} }

FetchedInTeams == {TeamOf(sissa_teams_to_find[i]) : i \in 1..Len(sissa_teams_to_find)}
FetchedInRemaining == {TeamOf(team_instances[i]) : i \in 1..Len(team_instances)}

\* C15: once FETCH_REMAINING_TEAMS is over, every team a scraped division
\* lists that was not fetched in FETCH_TEAMS has been fetched in
\* FETCH_REMAINING_TEAMS, and no team fetched in FETCH_TEAMS was fetched
\* again, a team being its federation and its local id.
C15_RemainingTeamsAreTheUnfetchedOnes ==
    pc \in {"aggregate_teams", "fetch_players", "aggregate_players", "persist"} =>
        /\ (ReferencedTeams \ FetchedInTeams) \subseteq FetchedInRemaining
        /\ FetchedInRemaining \cap FetchedInTeams = {}

-----------------------------------------------------------------------------
(* run_scraper: the players of the teams and the divisions *)

\* a player is the federation and the local id of the page
PlayerOf(player_url) == <<Upper(player_url.host), player_url.id>>

\* the players on the rosters of the aggregated teams
RosterPlayers ==
    UNION { { PlayerOf(all_teams_data[t][2].players[k][2].url) :
                k \in 1..Len(all_teams_data[t][2].players) } :
            t \in 1..Len(all_teams_data) }

\* the players on the player lists of the divisions scraped with their name
DivisionListPlayers ==
    UNION { { <<The(division_results[i]).value.federation,
                The(division_results[i]).value.players[k][1]>> :
                  k \in 1..Len(The(division_results[i]).value.players) } :
            i \in {i \in 1..Len(division_results) :
                     The(division_results[i]).value.name # <<>>} }

\* how many times the page of the player was fetched
PlayerFetchCount(player) ==
    LET keys == {key \in DOMAIN fetches :
                    key[1] = "player" /\ PlayerOf(key[2]) = player}
    IN  IF keys = {} THEN 0 ELSE fetches[CHOOSE key \in keys : TRUE]

\* C16: once FETCH_PLAYERS is over, every player on the roster of an
\* aggregated team or on the player list of a scraped division has been
\* fetched exactly once, a player being its federation and its local id.
C16_EveryReferencedPlayerFetchedOnce ==
    pc \in {"aggregate_players", "persist"} /\ unique_players_to_scrape # <<>> =>
        \A player \in RosterPlayers \cup DivisionListPlayers :
            PlayerFetchCount(player) = 1

-----------------------------------------------------------------------------
(* run_scraper: the order in which the workers finish *)

\* what the calls come to when every fetch delivers its page
DeliveredTeam(team_instance) ==
    LET doc == TeamDoc(team_instance.url)
        rows == The(doc.matches).rows
    IN  scrape_team_page(team_instance, Content(doc),
            [i \in 1..Len(rows) |-> Content(PairingDoc(The(rows[i].link)))]).value

DeliveredDivision(item) ==
    scrape_division_page(Content(DivisionDoc(item[1])), item[2]).value

DeliveredPlayer(item) ==
    LET doc == PlayerDoc(item[2].url)
        rounds == IF IsNone(doc.games_table) THEN <<>>
                  ELSE [i \in 1..Len(The(doc.games_table)) |->
                           IF IsNone(The(doc.games_table)[i].round_link)
                           THEN [kind |-> "skipped"] ELSE Content(RoundDoc)]
    IN  scrape_player_page(item[1], Content(doc), rounds).value

\* every call of every stage got its pages, whatever the place of its result
EveryFetchDelivered ==
    /\ Range(Values(sissa_team_data_list)) =
           {DeliveredTeam(t) : t \in Range(sissa_teams_to_find)}
    /\ Range(Values(division_results)) =
           {DeliveredDivision(d) : d \in Range(unique_division_urls)}
    /\ Range(Values(newly_scraped_team_data)) =
           {DeliveredTeam(t) : t \in Range(team_instances)}
    /\ Range(Values(player_data_list)) =
           {DeliveredPlayer(p) : p \in Range(unique_players_to_scrape)}

RECURSIVE MergedTeams(_, _)
MergedTeams(aggregated, team_data_list) ==
    IF team_data_list = <<>> THEN aggregated
    ELSE MergedTeams(MergeTeamInto(aggregated, Head(team_data_list)), Tail(team_data_list))

RECURSIVE MergedPlayers(_, _)
MergedPlayers(aggregated, observations) ==
    IF observations = <<>> THEN aggregated
    ELSE MergedPlayers(MergePlayerInto(aggregated, Head(observations)), Tail(observations))

\* the crawl of the teams found, the calls of each stage made one after the
\* other in the order of the stage's input
CrawlInInputOrder(found) ==
    LET first == [i \in 1..Len(found) |-> DeliveredTeam(found[i])]
        c == CacheTeams(first, <<>>, <<>>, 1)
        divs == [i \in 1..Len(c.urls) |-> DeliveredDivision(c.urls[i])]
        d == CollectDivisionResults(divs, <<>>, <<>>, <<>>, 1)
        now == TeamsToScrapeNow(d.to_scrape, c.cached)
        final == DictValues(c.cached) \o [i \in 1..Len(now) |-> DeliveredTeam(now[i])]
        teams == RecomputeTeamAverages(MergedTeams(<<>>, final))
        unique == UniquePlayers(d.in_divisions, teams)
        observed == [i \in 1..Len(unique) |-> DeliveredPlayer(unique[i])]
    IN  [teams |-> teams, divisions |-> d.divisions,
         players |-> RecomputePlayerAverages(MergedPlayers(<<>>, observed))]

\* C17: with every page delivered, the aggregated teams, divisions and
\* players of a run are those of the crawl that makes the calls of each
\* stage in input order, in whatever order the workers of a stage finished.
C17_AggregatesDoNotDependOnCompletionOrder ==
    pc = "persist" /\ EveryFetchDelivered =>
        /\ all_teams_data = CrawlInInputOrder(sissa_teams_to_find).teams
        /\ all_divisions_data = CrawlInInputOrder(sissa_teams_to_find).divisions
        /\ all_players_data = CrawlInInputOrder(sissa_teams_to_find).players

\* a run of two phases of SISSA 1, merged into one team, and of three players
C17_Witness ==
    /\ pc = "persist" /\ EveryFetchDelivered
    /\ Len(sissa_teams_to_find) = 2
    /\ sissa_teams_to_find[1].name = sissa_teams_to_find[2].name
    /\ Len(team_instances) >= 1
    /\ Len(all_players_data) >= 2

-----------------------------------------------------------------------------
(* fetch_page: the waits *)

\* the attempts that failed and were not the last one allowed
FollowedAttempts ==
    IF fp_i < fp_retries - 1 THEN fp_i
    ELSE IF fp_retries = 0 THEN 0 ELSE fp_retries - 1

\* C18: the k-th attempt that did not deliver content is followed, before the
\* next attempt, by a wait of k * 5 seconds, whatever made it fail, and the
\* last attempt allowed is followed by no wait.
C18_LinearBackoffBetweenAttempts ==
    fp_pc \in {"loop", "returned"} =>
        fp_waits = [k \in 1..FollowedAttempts |-> k * 5]

-----------------------------------------------------------------------------
(* run_scraper: the fetches in flight *)

\* the calls of fetch_page, scrape_round_date's fetch_page and
\* fetch_historical_ratings' request that have not returned
InFlight == pl_main + pl_fetching

\* C19: at every moment of a run at most max_workers = 15 fetches are in
\* flight, the fetches a worker makes for the pairing pages, the round pages
\* and the rating history of its own team or player included.
C19_AtMostPoolWidthFetchesInFlight == InFlight <= MAX_WORKERS

\* every worker of the player stage is in a fetch and calls are waiting
C19_Witness ==
    /\ pl_stage = Len(PoolStages)
    /\ pl_fetching = MAX_WORKERS
    /\ pl_queue > 0

-----------------------------------------------------------------------------
(* run_scraper: the matches of a team and the ratings of its opponents *)

\* the pairing page gives a rating of the opponent that is not zero
YieldsRating(pairing_html, opponent) ==
    LET r == scrape_opponent_rating_from_pairings(pairing_html, opponent) IN
    ~r.raised /\ ~IsNone(r.value) /\ The(r.value) # 0

\* the fetches of the pairing page of the match; in the sites the date of a
\* fixture is the id of its pairing link
PagesOfMatch(match) == {key \in DOMAIN pairing_pages : key[2].id = match.date}

\* matches and opponent_ratings_raw go side by side: as many ratings as
\* matches, the i-th the rating that the pairing page of the i-th match gave
Aligned(team_data) ==
    /\ Len(team_data.matches) = Len(team_data.opponent_ratings_raw)
    /\ \A i \in 1..Len(team_data.matches) :
         LET match == team_data.matches[i] IN
         \E key \in PagesOfMatch(match) :
              /\ YieldsRating(pairing_pages[key], match.opponent)
              /\ team_data.opponent_ratings_raw[i] =
                     The(scrape_opponent_rating_from_pairings(
                             pairing_pages[key], match.opponent).value)

\* the fixtures of the team page whose pairing page was fetched are matches
\* of the record exactly when the page gave a rating
MatchesAreTheRatedFixtures(team_instance, team_data) ==
    LET table == TeamDoc(team_instance.url).matches IN
    \A row \in (IF IsNone(table) THEN {} ELSE Range(The(table).rows)) :
        LET url == <<team_instance.url,
                     Url(Lower(team_instance.domain), The(row.link))>> IN
        (HasPairingLink(row) /\ url \in DOMAIN pairing_pages) =>
            ((\E k \in 1..Len(team_data.matches) : team_data.matches[k].date = row.date)
                <=> YieldsRating(pairing_pages[url],
                                 OpponentOf(row, team_instance.name)))

\* the calls of a stage that have returned a record
Returned(results) ==
    {i \in 1..Len(results) : ~IsNone(results[i]) /\ ~The(results[i]).raised}

\* C20: in every team record, as a call returned it and after every merge
\* of the aggregation, matches and opponent_ratings_raw have the same length
\* and the i-th rating is the one resolved for the i-th match; a fixture
\* whose pairing page was fetched is a match of the record if and only if
\* the page gave a rating that is not zero.
C20_MatchesAndRatingsStayAligned ==
    /\ \A i \in Returned(sissa_team_data_list) :
         /\ Aligned(The(sissa_team_data_list[i]).value)
         /\ MatchesAreTheRatedFixtures(sissa_teams_to_find[i],
                                       The(sissa_team_data_list[i]).value)
    /\ \A i \in Returned(newly_scraped_team_data) :
         /\ Aligned(The(newly_scraped_team_data[i]).value)
         /\ MatchesAreTheRatedFixtures(team_instances[i],
                                       The(newly_scraped_team_data[i]).value)
    /\ \A i \in 1..Len(cached_team_data) : Aligned(cached_team_data[i][2])
    /\ \A i \in 1..Len(final_team_data_list) : Aligned(final_team_data_list[i])
    /\ \A i \in 1..Len(aggregated_teams_data) : Aligned(aggregated_teams_data[i][2])
    /\ \A i \in 1..Len(all_teams_data) : Aligned(all_teams_data[i][2])

\* the two OPP 1 of the two federations are merged into one record of two
\* matches, and the fixture of sissa 2 against a ghost is no match
C20_Witness ==
    /\ pc = "persist"
    /\ DictHas(all_teams_data, <<"OPP", "1">>)
    /\ DictHas(all_teams_data, <<"sissa", "2">>)
    /\ Len(DictGet(all_teams_data, <<"OPP", "1">>).matches) = 2
    /\ DictGet(all_teams_data, <<"OPP", "1">>).opponent_ratings_raw = <<1700, 1500>>
    /\ DictGet(all_teams_data, <<"sissa", "2">>).matches = <<>>
    /\ \E key \in DOMAIN pairing_pages :
         key[2].id = 3 /\ pairing_pages[key].kind = "content"

-----------------------------------------------------------------------------
(* fetch_page: the browser sessions *)

\* C21: a session that an attempt of fetch_page started is quit before the
\* next attempt starts and before fetch_page returns, whether the attempt
\* gave the page, gave an empty page or ended in a WebDriverException or a
\* TimeoutException, and when the attempts run out.
C21_NoSessionLeftOpen ==
    fp_pc \in {"loop", "returned"} => fp_open = 0

-----------------------------------------------------------------------------
(* run_scraper: the federation ids of the aggregated players *)

NoDuplicates(list) ==
    \A i, j \in 1..Len(list) : list[i] = list[j] => i = j

\* the federation_ids of the records: not empty, without duplicates, the
\* record's own federation_id first, and no id in the lists of two records
FederationIdsInOrder(players) ==
    /\ \A k \in 1..Len(players) :
         LET rec == players[k][2] IN
         /\ rec.federation_ids # <<>>
         /\ NoDuplicates(rec.federation_ids)
         /\ rec.federation_ids[1] = rec.federation_id
    /\ \A k, l \in 1..Len(players) :
         k # l => Range(players[k][2].federation_ids)
                      \cap Range(players[l][2].federation_ids) = {}

\* C22: after the aggregation of the players, and after each of its passes,
\* every aggregated player has a federation_ids list that is not empty, has
\* no duplicates and starts with the record's own federation_id, and no
\* federation id is in the lists of two aggregated players.
C22_FederationIdsAreDistinct ==
    /\ FederationIdsInOrder(aggregated_players_data)
    /\ FederationIdsInOrder(all_players_data)

\* Alice's two observations are one record, next to the record of Dan or Eve
C22_Witness ==
    /\ pc = "persist"
    /\ Len(all_players_data) >= 2
    /\ \E k \in 1..Len(all_players_data) :
         all_players_data[k][2].federation_ids = <<"55", "77">>

=============================================================================
